---- MODULE Spec2Model ----
(***************************************************************************)
(* Model of the cc-led firmware: the serial line assembler and command     *)
(* dispatcher (sketches/common SerialCommandHandler), the C command        *)
(* parser (CommandProcessor.c), the two LED backends (DigitalLEDController *)
(* and NeoPixelLEDController) and the loop that composes them              *)
(* (UniversalMain.cpp).                                                    *)
(*                                                                         *)
(* C strings and Arduino Strings are sequences of one-character strings.   *)
(* int and long are 32 bits wide, as on the three boards the sketches      *)
(* target (RP2040 and RA4M1, arm-none-eabi with newlib); atoi, atol and    *)
(* the %d conversion of sscanf are newlib's, which convert through strtol  *)
(* and so saturate at LONG_MAX / LONG_MIN.                                 *)
(***************************************************************************)
EXTENDS Integers, Sequences, FiniteSets, TLC

VARIABLES
    pc,            \* the call universalLoop() makes next
    rx,            \* bytes the serial transport holds, not yet read
    serialBuffer,  \* SerialCommandHandler's line buffer
    commandReady,  \* SerialCommandHandler's pending-command flag
    tx,            \* the lines written to Serial, oldest first
    led,           \* the LEDController object
    now,           \* what millis() returns
    ops,           \* the LEDController calls made for the last command line
    input,         \* the last line the host wrote, field by field
    sends,         \* number of lines the host has written
    elapsed,       \* milliseconds passed since setup
    lastUpdate,    \* what this iteration's update() call did, if it was made
    written,       \* the byte strings the host has written, oldest first
    advances       \* phase advances update() made since the last LEDController call

vars == <<pc, rx, serialBuffer, commandReady, tx, led, now,
          ops, input, sends, elapsed, lastUpdate, written, advances>>

(***************************************************************************)
(* libc                                                                    *)
(***************************************************************************)

\* Largest value of int and of long on the target (32 bits).
INT_MAX == 2147483647

INT_MIN == (-INT_MAX) - 1

isspace(c) == c \in {" ", "\t", "\n", "\r", "\f"}

isdigit(c) == c \in {"0", "1", "2", "3", "4", "5", "6", "7", "8", "9"}

DigitValue(c) ==
    CASE c = "0" -> 0 [] c = "1" -> 1 [] c = "2" -> 2 [] c = "3" -> 3
      [] c = "4" -> 4 [] c = "5" -> 5 [] c = "6" -> 6 [] c = "7" -> 7
      [] c = "8" -> 8 [] c = "9" -> 9

\* s is a C string: position Len(s)+1 holds the terminating NUL.
\* The first position at or after i that holds no white space.
SkipSpace(s, i) ==
    CHOOSE j \in i..(Len(s) + 1) :
        /\ j > Len(s) \/ ~isspace(s[j])
        /\ \A k \in i..(j - 1) : isspace(s[k])

\* The digit loop of strtol: accumulates while the value stays representable,
\* and remembers that it overflowed otherwise.
RECURSIVE AccDigits(_, _, _, _)
AccDigits(s, k, acc, sat) ==
    IF k > Len(s) \/ ~isdigit(s[k])
    THEN [val |-> acc, sat |-> sat, next |-> k]
    ELSE IF sat \/ acc > (INT_MAX - DigitValue(s[k])) \div 10
         THEN AccDigits(s, k + 1, acc, TRUE)
         ELSE AccDigits(s, k + 1, acc * 10 + DigitValue(s[k]), FALSE)

\* What strtol returns for the digits a found from position k on, neg telling
\* a minus sign: the value, LONG_MAX or LONG_MIN when it is out of range, and
\* 0 with no character consumed when there was no digit.
strtolResult(a, neg, k, i) ==
    [ok   |-> a.next > k,
     val  |-> IF a.next <= k THEN 0
              ELSE IF a.sat THEN (IF neg THEN INT_MIN ELSE INT_MAX)
              ELSE IF neg THEN -a.val ELSE a.val,
     next |-> IF a.next > k THEN a.next ELSE i]

\* strtol past the white space, at position j: an optional sign, then digits.
strtolSigned(s, i, j) ==
    IF j <= Len(s) /\ s[j] \in {"-", "+"}
    THEN strtolResult(AccDigits(s, j + 1, 0, FALSE), s[j] = "-", j + 1, i)
    ELSE strtolResult(AccDigits(s, j, 0, FALSE), FALSE, j, i)

\* strtol(s + i - 1, &end, 10).
strtol(s, i) == strtolSigned(s, i, SkipSpace(s, i))

atoi(s, i) == strtol(s, i).val

atol(s, i) == strtol(s, i).val

\* strchr(s + i - 1, c): the position of the first c at or after i, 0 for NULL.
strchr(s, i, c) ==
    IF \E j \in i..Len(s) : s[j] = c
    THEN CHOOSE j \in i..Len(s) : s[j] = c /\ \A k \in i..(j - 1) : s[k] # c
    ELSE 0

\* strncmp(s, p, strlen(p)) == 0, and String::startsWith.
startsWith(s, p) ==
    /\ Len(s) >= Len(p)
    /\ \A i \in 1..Len(p) : s[i] = p[i]

DigitChar(d) == <<"0", "1", "2", "3", "4", "5", "6", "7", "8", "9">>[d + 1]

RECURSIVE NatToStr(_)
NatToStr(n) ==
    IF n < 10 THEN <<DigitChar(n)>>
    ELSE NatToStr(n \div 10) \o <<DigitChar(n % 10)>>

\* The text printf writes for %d and %ld.
IntToStr(n) ==
    IF n >= 0 THEN NatToStr(n)
    ELSE IF n = INT_MIN THEN <<"-">> \o NatToStr(INT_MAX \div 10) \o <<"8">>
    ELSE <<"-">> \o NatToStr(-n)

\* sscanf(s + i - 1, "%d,%d,...,%d") with n conversions: the values converted
\* before the first matching failure. ScanRest continues after conversion f.
RECURSIVE ScanInts(_, _, _)
RECURSIVE ScanRest(_, _, _)
ScanInts(s, i, n) ==
    IF n = 0 THEN <<>> ELSE ScanRest(s, n, strtol(s, i))

ScanRest(s, n, f) ==
    IF ~f.ok THEN <<>>
    ELSE IF n > 1 /\ f.next <= Len(s) /\ s[f.next] = ","
         THEN <<f.val>> \o ScanInts(s, f.next + 1, n - 1)
         ELSE <<f.val>>

(***************************************************************************)
(* CommandProcessor.c                                                      *)
(***************************************************************************)

STR_ON == <<"O", "N">>

STR_OFF == <<"O", "F", "F">>

\* The COLOR prefix without its comma.
STR_COLOR_NoComma == <<"C", "O", "L", "O", "R">>

STR_COLOR == <<"C", "O", "L", "O", "R", ",">>

STR_BLINK1 == <<"B", "L", "I", "N", "K", "1", ",">>

STR_BLINK2 == <<"B", "L", "I", "N", "K", "2", ",">>

STR_RAINBOW == <<"R", "A", "I", "N", "B", "O", "W", ",">>

STR_ACCEPTED == <<"A", "C", "C", "E", "P", "T", "E", "D", ",">>

STR_REJECT == <<"R", "E", "J", "E", "C", "T", ",">>

STR_INTERVAL == <<",", "i", "n", "t", "e", "r", "v", "a", "l", "=">>

STR_INVALID_FORMAT ==
    <<",", "i", "n", "v", "a", "l", "i", "d", " ", "f", "o", "r", "m", "a", "t">>

STR_INVALID_PARAMETERS ==
    <<",", "i", "n", "v", "a", "l", "i", "d", " ",
      "p", "a", "r", "a", "m", "e", "t", "e", "r", "s">>

STR_INVALID_INTERVAL ==
    <<",", "i", "n", "v", "a", "l", "i", "d", " ",
      "i", "n", "t", "e", "r", "v", "a", "l">>

STR_UNKNOWN_COMMAND ==
    <<",", "u", "n", "k", "n", "o", "w", "n", " ",
      "c", "o", "m", "m", "a", "n", "d">>

STR_BUFFER_OVERFLOW ==
    <<"B", "U", "F", "F", "E", "R", "_", "O", "V", "E", "R", "F", "L", "O", "W">>

STR_COMMAND_TOO_LONG ==
    <<"c", "o", "m", "m", "a", "n", "d", " ", "t", "o", "o", " ", "l", "o", "n", "g">>

NoParse == [ok |-> FALSE, r |-> 0, g |-> 0, b |-> 0,
            r2 |-> 0, g2 |-> 0, b2 |-> 0, interval |-> 0]

\* The bounds check with its upper bound off by one.
InByte_Loose(v) == v >= 0 /\ v <= 256

InByte(v) == v >= 0 /\ v <= 255

\* strchr(comma + 1, ','), NULL when comma is NULL already.
NextComma(cmd, comma) == IF comma = 0 THEN 0 ELSE strchr(cmd, comma + 1, ",")

\* The bounds check of parseColorCommand and its check for a minus sign.
colorValues(cmd, comma1, comma2, r_val, g_val, b_val) ==
    IF ~InByte(r_val) \/ ~InByte(g_val) \/ ~InByte(b_val) THEN NoParse
    ELSE IF \/ (r_val = 0 /\ 7 <= Len(cmd) /\ cmd[7] = "-")
            \/ (g_val = 0 /\ comma1 + 1 <= Len(cmd) /\ cmd[comma1 + 1] = "-")
            \/ (b_val = 0 /\ comma2 + 1 <= Len(cmd) /\ cmd[comma2 + 1] = "-")
         THEN NoParse
    ELSE [NoParse EXCEPT !.ok = TRUE, !.r = r_val, !.g = g_val, !.b = b_val]

\* parseColorCommand without its check for extra parameters.
colorFields_IgnoreExtra(cmd, comma1, comma2) ==
    IF comma1 = 0 \/ comma2 = 0 THEN NoParse
    ELSE colorValues(cmd, comma1, comma2,
                     atoi(cmd, 7), atoi(cmd, comma1 + 1), atoi(cmd, comma2 + 1))

\* parseColorCommand once the two commas were looked for.
colorFields(cmd, comma1, comma2) ==
    IF comma1 = 0 \/ comma2 = 0 THEN NoParse
    ELSE IF strchr(cmd, comma2 + 1, ",") # 0 THEN NoParse
    ELSE colorValues(cmd, comma1, comma2,
                     atoi(cmd, 7), atoi(cmd, comma1 + 1), atoi(cmd, comma2 + 1))

parseColorCommand(cmd) ==
    IF ~startsWith(cmd, STR_COLOR) THEN NoParse
    ELSE colorFields(cmd, strchr(cmd, 7, ","), NextComma(cmd, strchr(cmd, 7, ",")))

\* The bounds check of parseBlink1Command.
blink1Values(r_val, g_val, b_val, interval_val) ==
    IF ~InByte(r_val) \/ ~InByte(g_val) \/ ~InByte(b_val) \/ interval_val <= 0
    THEN NoParse
    ELSE [NoParse EXCEPT !.ok = TRUE, !.r = r_val, !.g = g_val, !.b = b_val,
                         !.interval = interval_val]

\* parseBlink1Command once the three commas were looked for.
blink1Fields(cmd, comma1, comma2, comma3) ==
    IF comma1 = 0 \/ comma2 = 0 \/ comma3 = 0 THEN NoParse
    ELSE IF strchr(cmd, comma3 + 1, ",") # 0 THEN NoParse
    ELSE blink1Values(atoi(cmd, 8), atoi(cmd, comma1 + 1), atoi(cmd, comma2 + 1),
                      atol(cmd, comma3 + 1))

blink1Commas(cmd, comma1, comma2) ==
    blink1Fields(cmd, comma1, comma2, NextComma(cmd, comma2))

parseBlink1Command(cmd) ==
    IF ~startsWith(cmd, STR_BLINK1) THEN NoParse
    ELSE blink1Commas(cmd, strchr(cmd, 8, ","), NextComma(cmd, strchr(cmd, 8, ",")))

\* The test of parseBlink2Command with the bounds of the last channel left out.
blink2Values_FiveChannels(t) ==
    IF Len(t) = 7 /\ t[7] > 0 /\ \A k \in 1..5 : InByte(t[k])
    THEN [ok |-> TRUE, r |-> t[1], g |-> t[2], b |-> t[3],
          r2 |-> t[4], g2 |-> t[5], b2 |-> t[6] % 256, interval |-> t[7]]
    ELSE NoParse

\* The test parseBlink2Command makes on what sscanf converted.
blink2Values(t) ==
    IF Len(t) = 7 /\ t[7] > 0 /\ \A k \in 1..6 : InByte(t[k])
    THEN [ok |-> TRUE, r |-> t[1], g |-> t[2], b |-> t[3],
          r2 |-> t[4], g2 |-> t[5], b2 |-> t[6], interval |-> t[7]]
    ELSE NoParse

parseBlink2Command(cmd) ==
    IF ~startsWith(cmd, STR_BLINK2) THEN NoParse
    ELSE blink2Values(ScanInts(cmd, 8, 7))

\* The test of parseRainbowCommand with >= in place of >.
rainbowValues_NonNegative(t) ==
    IF Len(t) = 1 /\ t[1] >= 0
    THEN [NoParse EXCEPT !.ok = TRUE, !.interval = t[1]]
    ELSE NoParse

\* The test parseRainbowCommand makes on what sscanf converted.
rainbowValues(t) ==
    IF Len(t) = 1 /\ t[1] > 0
    THEN [NoParse EXCEPT !.ok = TRUE, !.interval = t[1]]
    ELSE NoParse

parseRainbowCommand(cmd) ==
    IF ~startsWith(cmd, STR_RAINBOW) THEN NoParse
    ELSE rainbowValues(ScanInts(cmd, 9, 1))

Accepted(text) == [result |-> "COMMAND_ACCEPTED", response |-> STR_ACCEPTED \o text]

Rejected(cmd, reason) ==
    [result |-> "COMMAND_REJECTED", response |-> STR_REJECT \o cmd \o reason]

colorResponse(cmd, p) ==
    IF p.ok THEN Accepted(cmd) ELSE Rejected(cmd, STR_INVALID_FORMAT)

blink1Response(cmd, p) ==
    IF p.ok
    THEN Accepted(STR_BLINK1 \o IntToStr(p.r) \o <<",">> \o IntToStr(p.g)
                  \o <<",">> \o IntToStr(p.b)
                  \o STR_INTERVAL \o IntToStr(p.interval))
    ELSE Rejected(cmd, STR_INVALID_PARAMETERS)

blink2Response(cmd, p) ==
    IF p.ok
    THEN Accepted(STR_BLINK2 \o IntToStr(p.r) \o <<",">> \o IntToStr(p.g)
                  \o <<",">> \o IntToStr(p.b) \o <<",">> \o IntToStr(p.r2)
                  \o <<",">> \o IntToStr(p.g2) \o <<",">> \o IntToStr(p.b2)
                  \o STR_INTERVAL \o IntToStr(p.interval))
    ELSE Rejected(cmd, STR_INVALID_PARAMETERS)

rainbowResponse(cmd, p) ==
    IF p.ok
    THEN Accepted(<<"R", "A", "I", "N", "B", "O", "W">>
                  \o STR_INTERVAL \o IntToStr(p.interval))
    ELSE Rejected(cmd, STR_INVALID_INTERVAL)

\* ::processCommand(cmd, &response)
processCommand(cmd) ==
    IF Len(cmd) = 0 THEN Rejected(<<>>, STR_UNKNOWN_COMMAND)
    ELSE IF cmd = STR_ON THEN Accepted(STR_ON)
    ELSE IF cmd = STR_OFF THEN Accepted(STR_OFF)
    ELSE IF startsWith(cmd, STR_COLOR) THEN colorResponse(cmd, parseColorCommand(cmd))
    ELSE IF startsWith(cmd, STR_BLINK1) THEN blink1Response(cmd, parseBlink1Command(cmd))
    ELSE IF startsWith(cmd, STR_BLINK2) THEN blink2Response(cmd, parseBlink2Command(cmd))
    ELSE IF startsWith(cmd, STR_RAINBOW) THEN rainbowResponse(cmd, parseRainbowCommand(cmd))
    ELSE Rejected(cmd, STR_UNKNOWN_COMMAND)

(***************************************************************************)
(* unsigned long (32 bits), kept as two 16-bit halves                      *)
(***************************************************************************)

\* 2^16, the weight of the high half of a 32-bit value.
HALF == 65536

U32(hi, lo) == [hi |-> hi, lo |-> lo]

\* Conversion of a (signed, 32-bit) long to unsigned long.
ToUnsignedLong(n) ==
    IF n >= 0 THEN U32(n \div HALF, n % HALF)
    ELSE LET m == (-n) - 1
         IN  U32((HALF - 1) - (m \div HALF), (HALF - 1) - (m % HALF))

\* a + d modulo 2^32, for 0 <= d < 2^16.
U32Add(a, d) ==
    U32((a.hi + ((a.lo + d) \div HALF)) % HALF, (a.lo + d) % HALF)

\* a - b modulo 2^32.
U32Sub(a, b) ==
    LET borrow == IF a.lo < b.lo THEN 1 ELSE 0
    IN  U32((a.hi - b.hi - borrow + 2 * HALF) % HALF, (a.lo - b.lo + HALF) % HALF)

U32Less(a, b) == a.hi < b.hi \/ (a.hi = b.hi /\ a.lo < b.lo)

(***************************************************************************)
(* LEDController backends                                                  *)
(***************************************************************************)

\* Adafruit_NeoPixel::Color(r, g, b): the packed 0x00RRGGBB value.
createColor(r, g, b) == [src |-> "rgb", v |-> r * 65536 + g * 256 + b]

\* pixels.gamma32(pixels.ColorHSV(hue)): a colour determined by the hue.
ColorHSV(hue) == [src |-> "hsv", v |-> hue]

Black == createColor(0, 0, 0)

\* LEDController's timing fields and what the constructors initialise.
\* color1 and color2 have no initialiser: c1 and c2 are what the memory held.
NeoPixelLEDController(c1, c2) ==
    [kind |-> "RGB",
     previousUpdateMillis |-> U32(0, 0), currentInterval |-> 500,
     animationEnabled |-> FALSE,
     animationMode |-> "NONE", blinkState |-> FALSE, rainbowHue |-> 0,
     color1 |-> c1, color2 |-> c2,
     pixel |-> Black, shown |-> Black]

DigitalLEDController ==
    [kind |-> "Digital",
     previousUpdateMillis |-> U32(0, 0), currentInterval |-> 500,
     animationEnabled |-> FALSE,
     currentState |-> "LOW", blinkEnabled |-> FALSE, blinkState |-> FALSE,
     pin |-> "LOW"]

showPixels(l) == [l EXCEPT !.shown = l.pixel]

NeoPixel_initialize(l) ==
    showPixels([l EXCEPT !.pixel = Black, !.animationEnabled = FALSE,
                         !.animationMode = "NONE"])

\* stopAnimation clearing the enabled flag and leaving the mode.
NeoPixel_stopAnimation_KeepMode(l) == [l EXCEPT !.animationEnabled = FALSE]

NeoPixel_stopAnimation(l) ==
    [l EXCEPT !.animationEnabled = FALSE, !.animationMode = "NONE"]

NeoPixel_setColor(l, r, g, b) ==
    showPixels([NeoPixel_stopAnimation(l) EXCEPT !.pixel = createColor(r, g, b)])

\* turnOn writing white without stopping the animation.
NeoPixel_turnOn_KeepAnimating(l) ==
    showPixels([l EXCEPT !.pixel = createColor(255, 255, 255)])

NeoPixel_turnOn(l) == NeoPixel_setColor(NeoPixel_stopAnimation(l), 255, 255, 255)

\* turnOff clearing the pixel without stopping the animation.
NeoPixel_turnOff_KeepAnimating(l) == showPixels([l EXCEPT !.pixel = Black])

NeoPixel_turnOff(l) ==
    showPixels([NeoPixel_stopAnimation(l) EXCEPT !.pixel = Black])

\* startBlink without the reset of the phase flag.
NeoPixel_startBlink_KeepPhase(l, r, g, b, interval, millis) ==
    showPixels([l EXCEPT !.currentInterval = interval,
                         !.color1 = createColor(r, g, b),
                         !.animationMode = "BLINK1",
                         !.animationEnabled = TRUE,
                         !.previousUpdateMillis = millis,
                         !.pixel = Black])

NeoPixel_startBlink(l, r, g, b, interval, millis) ==
    showPixels([l EXCEPT !.currentInterval = interval,
                         !.color1 = createColor(r, g, b),
                         !.animationMode = "BLINK1",
                         !.animationEnabled = TRUE,
                         !.blinkState = FALSE,
                         !.previousUpdateMillis = millis,
                         !.pixel = Black])

NeoPixel_startBlink2(l, r1, g1, b1, r2, g2, b2, interval, millis) ==
    showPixels([l EXCEPT !.currentInterval = interval,
                         !.color1 = createColor(r1, g1, b1),
                         !.color2 = createColor(r2, g2, b2),
                         !.animationMode = "BLINK2",
                         !.animationEnabled = TRUE,
                         !.blinkState = FALSE,
                         !.previousUpdateMillis = millis,
                         !.pixel = createColor(r1, g1, b1)])

\* startRainbow leaving the timestamp as it was.
NeoPixel_startRainbow_KeepTimestamp(l, interval, millis) ==
    [l EXCEPT !.currentInterval = interval,
              !.animationMode = "RAINBOW",
              !.animationEnabled = TRUE,
              !.rainbowHue = 0]

NeoPixel_startRainbow(l, interval, millis) ==
    [l EXCEPT !.currentInterval = interval,
              !.animationMode = "RAINBOW",
              !.animationEnabled = TRUE,
              !.rainbowHue = 0,
              !.previousUpdateMillis = millis]

\* The phase advance with the hue wrapping one step late, past 65536.
NeoPixel_advance_WrapLate(l) ==
    CASE l.animationMode = "BLINK1" ->
           showPixels([l EXCEPT !.blinkState = ~l.blinkState,
                                !.pixel = IF ~l.blinkState THEN l.color1 ELSE Black])
      [] l.animationMode = "BLINK2" ->
           showPixels([l EXCEPT !.blinkState = ~l.blinkState,
                                !.pixel = IF ~l.blinkState THEN l.color1 ELSE l.color2])
      [] l.animationMode = "RAINBOW" ->
           [showPixels([l EXCEPT !.pixel = ColorHSV(l.rainbowHue)])
              EXCEPT !.rainbowHue = IF l.rainbowHue + 256 > 65536 THEN 0
                                    ELSE l.rainbowHue + 256]
      [] OTHER -> l

\* The phase advance of update(), one case per animation mode.
NeoPixel_advance(l) ==
    CASE l.animationMode = "BLINK1" ->
           showPixels([l EXCEPT !.blinkState = ~l.blinkState,
                                !.pixel = IF ~l.blinkState THEN l.color1 ELSE Black])
      [] l.animationMode = "BLINK2" ->
           showPixels([l EXCEPT !.blinkState = ~l.blinkState,
                                !.pixel = IF ~l.blinkState THEN l.color1 ELSE l.color2])
      [] l.animationMode = "RAINBOW" ->
           [showPixels([l EXCEPT !.pixel = ColorHSV(l.rainbowHue)])
              EXCEPT !.rainbowHue = IF l.rainbowHue + 256 > 65535 THEN 0
                                    ELSE l.rainbowHue + 256]
      [] OTHER -> l

\* update() keeping to the interval grid: the timestamp moves on by one interval
\* instead of being set to the clock value read.
NeoPixel_update_CatchUp(l, millis) ==
    IF ~l.animationEnabled THEN l
    ELSE IF U32Less(U32Sub(millis, l.previousUpdateMillis),
                    ToUnsignedLong(l.currentInterval))
    THEN l
    ELSE NeoPixel_advance(
           [l EXCEPT !.previousUpdateMillis =
                        U32Add(l.previousUpdateMillis, l.currentInterval % HALF)])

\* update() comparing the clock value with the deadline, timestamp plus
\* interval, instead of the time passed with the interval.
NeoPixel_update_Deadline(l, millis) ==
    IF ~l.animationEnabled THEN l
    ELSE IF U32Less(millis, U32Add(l.previousUpdateMillis, l.currentInterval % HALF))
    THEN l
    ELSE NeoPixel_advance([l EXCEPT !.previousUpdateMillis = millis])

\* update() advancing a millisecond early: when the time passed plus one is
\* no less than the interval.
NeoPixel_update_Early(l, millis) ==
    IF ~l.animationEnabled THEN l
    ELSE IF U32Less(U32Add(U32Sub(millis, l.previousUpdateMillis), 1),
                    ToUnsignedLong(l.currentInterval))
    THEN l
    ELSE NeoPixel_advance([l EXCEPT !.previousUpdateMillis = millis])

NeoPixel_update(l, millis) ==
    IF ~l.animationEnabled THEN l
    ELSE IF U32Less(U32Sub(millis, l.previousUpdateMillis),
                    ToUnsignedLong(l.currentInterval))
    THEN l
    ELSE NeoPixel_advance([l EXCEPT !.previousUpdateMillis = millis])

setLEDState(l, state) == [l EXCEPT !.currentState = state, !.pin = state]

Digital_initialize(l) == [l EXCEPT !.pin = "LOW", !.animationEnabled = FALSE]

Digital_stopAnimation(l) == [l EXCEPT !.animationEnabled = FALSE]

Digital_turnOn(l) == setLEDState(Digital_stopAnimation(l), "HIGH")

Digital_turnOff(l) == setLEDState(Digital_stopAnimation(l), "LOW")

\* setColor lighting the LED only for a colour other than black.
Digital_setColor_ByValue(l, r, g, b) ==
    setLEDState(Digital_stopAnimation(l), IF r + g + b > 0 THEN "HIGH" ELSE "LOW")

Digital_setColor(l, r, g, b) == setLEDState(Digital_stopAnimation(l), "HIGH")

Digital_startBlink(l, r, g, b, interval, millis) ==
    setLEDState([l EXCEPT !.currentInterval = interval,
                          !.animationEnabled = TRUE,
                          !.blinkState = FALSE,
                          !.previousUpdateMillis = millis], "LOW")

Digital_startBlink2(l, r1, g1, b1, r2, g2, b2, interval, millis) ==
    Digital_startBlink(l, r1, g1, b1, interval, millis)

Digital_startRainbow(l, interval, millis) == Digital_turnOn(l)

\* update() advancing only once more than the interval has passed.
Digital_update_Late(l, millis) ==
    IF ~l.animationEnabled THEN l
    ELSE IF U32Less(ToUnsignedLong(l.currentInterval),
                    U32Sub(millis, l.previousUpdateMillis))
    THEN setLEDState([l EXCEPT !.previousUpdateMillis = millis,
                               !.blinkState = ~l.blinkState],
                     IF ~l.blinkState THEN "HIGH" ELSE "LOW")
    ELSE l

Digital_update(l, millis) ==
    IF ~l.animationEnabled THEN l
    ELSE IF ~U32Less(U32Sub(millis, l.previousUpdateMillis),
                     ToUnsignedLong(l.currentInterval))
    THEN setLEDState([l EXCEPT !.previousUpdateMillis = millis,
                               !.blinkState = ~l.blinkState],
                     IF ~l.blinkState THEN "HIGH" ELSE "LOW")
    ELSE l

\* Virtual dispatch on the LEDController the board's createLEDController() made.
update(l, millis) ==
    IF l.kind = "RGB" THEN NeoPixel_update(l, millis) ELSE Digital_update(l, millis)

(***************************************************************************)
(* SerialCommandHandler (sketches/common)                                  *)
(***************************************************************************)

\* The length past which handleSerial discards the line buffer.
MaxLineLength == 60

\* String::trim: s without its leading and trailing white space.
trim(s) ==
    LET solid == {i \in 1..Len(s) : ~isspace(s[i])}
    IN  IF solid = {} THEN <<>>
        ELSE SubSeq(s, CHOOSE i \in solid : \A j \in solid : i <= j,
                       CHOOSE i \in solid : \A j \in solid : i >= j)

\* sendResponse(status, command, additional): the line written to Serial.
sendResponse(status, command, additional) ==
    status \o <<",">> \o command
      \o (IF Len(additional) > 0 THEN <<",">> \o additional ELSE <<>>)

sendRejected(command, reason) ==
    sendResponse(<<"R", "E", "J", "E", "C", "T">>, command, reason)

\* The loop body taking every line feed for the end of a line, also one met
\* with the line buffer empty.
ReadByte_BlankLine(st, c) ==
    IF c = "\n"
    THEN [st EXCEPT !.serialBuffer = trim(st.serialBuffer),
                    !.commandReady = TRUE, !.read = st.read + 1]
    ELSE IF Len(st.serialBuffer) + 1 > MaxLineLength
         THEN [st EXCEPT !.serialBuffer = <<>>,
                         !.out = Append(st.out, sendRejected(STR_BUFFER_OVERFLOW,
                                                             STR_COMMAND_TOO_LONG)),
                         !.read = st.read + 1]
         ELSE [st EXCEPT !.serialBuffer = Append(st.serialBuffer, c),
                         !.read = st.read + 1]

\* The loop body reporting an overlong line without emptying the line buffer.
ReadByte_KeepOverlong(st, c) ==
    IF c = "\n"
    THEN IF Len(st.serialBuffer) > 0
         THEN [st EXCEPT !.serialBuffer = trim(st.serialBuffer),
                         !.commandReady = TRUE, !.read = st.read + 1]
         ELSE [st EXCEPT !.read = st.read + 1]
    ELSE IF Len(st.serialBuffer) + 1 > MaxLineLength
         THEN [st EXCEPT !.serialBuffer = Append(st.serialBuffer, c),
                         !.out = Append(st.out, sendRejected(STR_BUFFER_OVERFLOW,
                                                             STR_COMMAND_TOO_LONG)),
                         !.read = st.read + 1]
         ELSE [st EXCEPT !.serialBuffer = Append(st.serialBuffer, c),
                         !.read = st.read + 1]

\* The body of handleSerial's while loop for one byte c read from Serial.
\* st holds the line buffer, whether the loop has returned with a complete
\* line, the lines written so far and the number of bytes read.
ReadByte(st, c) ==
    IF c = "\n"
    THEN IF Len(st.serialBuffer) > 0
         THEN [st EXCEPT !.serialBuffer = trim(st.serialBuffer),
                         !.commandReady = TRUE, !.read = st.read + 1]
         ELSE [st EXCEPT !.read = st.read + 1]
    ELSE IF Len(st.serialBuffer) + 1 > MaxLineLength
         THEN [st EXCEPT !.serialBuffer = <<>>,
                         !.out = Append(st.out, sendRejected(STR_BUFFER_OVERFLOW,
                                                             STR_COMMAND_TOO_LONG)),
                         !.read = st.read + 1]
         ELSE [st EXCEPT !.serialBuffer = Append(st.serialBuffer, c),
                         !.read = st.read + 1]

\* The loop over bytes lo..hi of what Serial holds; it stops reading at the
\* return that follows a complete line.
RECURSIVE ReadBytes(_, _, _, _)
ReadBytes(st, avail, lo, hi) ==
    IF lo > hi \/ st.commandReady THEN st
    ELSE IF lo = hi THEN ReadByte(st, avail[lo])
    ELSE LET mid == (lo + hi) \div 2
             half == ReadBytes(st, avail, lo, mid)
         IN  ReadBytes(half, avail, mid + 1, hi)

\* handleSerial() with avail in the transport and buf in the line buffer: what
\* is left unread, the line buffer, whether a line completed, the lines written.
handleSerial(avail, buf) ==
    LET st == ReadBytes([serialBuffer |-> buf, commandReady |-> FALSE,
                         out |-> <<>>, read |-> 0], avail, 1, Len(avail))
    IN  [rx |-> SubSeq(avail, st.read + 1, Len(avail)),
         serialBuffer |-> st.serialBuffer,
         commandReady |-> st.commandReady,
         out |-> st.out]

Call(name, p) ==
    [op |-> name, r |-> p.r, g |-> p.g, b |-> p.b,
     r2 |-> p.r2, g2 |-> p.g2, b2 |-> p.b2, interval |-> p.interval]

\* The call made for a line when its second parse, p, succeeds.
callIfParsed(name, p) == IF p.ok THEN <<Call(name, p)>> ELSE <<>>

\* SerialCommandHandler::processCommand acting on the prefix of the line alone,
\* with neither the result of ::processCommand nor that of the parser looked at.
dispatch_Unchecked(cmd, response) ==
    IF cmd = STR_ON THEN <<Call("turnOn", NoParse)>>
    ELSE IF cmd = STR_OFF THEN <<Call("turnOff", NoParse)>>
    ELSE IF startsWith(cmd, STR_COLOR)
         THEN <<Call("setColor", parseColorCommand(cmd))>>
    ELSE IF startsWith(cmd, STR_BLINK1)
         THEN <<Call("startBlink", parseBlink1Command(cmd))>>
    ELSE IF startsWith(cmd, STR_BLINK2)
         THEN <<Call("startBlink2", parseBlink2Command(cmd))>>
    ELSE IF startsWith(cmd, STR_RAINBOW)
         THEN <<Call("startRainbow", parseRainbowCommand(cmd))>>
    ELSE <<>>

\* SerialCommandHandler::processCommand: the LEDController calls made for cmd,
\* given the response ::processCommand built for it.
dispatch(cmd, response) ==
    IF response.result # "COMMAND_ACCEPTED" THEN <<>>
    ELSE IF cmd = STR_ON THEN <<Call("turnOn", NoParse)>>
    ELSE IF cmd = STR_OFF THEN <<Call("turnOff", NoParse)>>
    ELSE IF startsWith(cmd, STR_COLOR)
         THEN callIfParsed("setColor", parseColorCommand(cmd))
    ELSE IF startsWith(cmd, STR_BLINK1)
         THEN callIfParsed("startBlink", parseBlink1Command(cmd))
    ELSE IF startsWith(cmd, STR_BLINK2)
         THEN callIfParsed("startBlink2", parseBlink2Command(cmd))
    ELSE IF startsWith(cmd, STR_RAINBOW)
         THEN callIfParsed("startRainbow", parseRainbowCommand(cmd))
    ELSE <<>>

\* One virtual call on the LEDController, millis being what millis() returns.
invoke(l, c, millis) ==
    IF l.kind = "RGB" THEN
        CASE c.op = "turnOn"  -> NeoPixel_turnOn(l)
          [] c.op = "turnOff" -> NeoPixel_turnOff(l)
          [] c.op = "setColor" -> NeoPixel_setColor(l, c.r, c.g, c.b)
          [] c.op = "startBlink" ->
               NeoPixel_startBlink(l, c.r, c.g, c.b, c.interval, millis)
          [] c.op = "startBlink2" ->
               NeoPixel_startBlink2(l, c.r, c.g, c.b, c.r2, c.g2, c.b2,
                                    c.interval, millis)
          [] c.op = "startRainbow" -> NeoPixel_startRainbow(l, c.interval, millis)
    ELSE
        CASE c.op = "turnOn"  -> Digital_turnOn(l)
          [] c.op = "turnOff" -> Digital_turnOff(l)
          [] c.op = "setColor" -> Digital_setColor(l, c.r, c.g, c.b)
          [] c.op = "startBlink" ->
               Digital_startBlink(l, c.r, c.g, c.b, c.interval, millis)
          [] c.op = "startBlink2" ->
               Digital_startBlink2(l, c.r, c.g, c.b, c.r2, c.g2, c.b2,
                                   c.interval, millis)
          [] c.op = "startRainbow" -> Digital_startRainbow(l, c.interval, millis)

RECURSIVE invokeAll(_, _, _)
invokeAll(l, calls, millis) ==
    IF calls = <<>> THEN l
    ELSE invokeAll(invoke(l, Head(calls), millis), Tail(calls), millis)

(***************************************************************************)
(* SerialCommandHandler (boards/common): the handler that parses with      *)
(* String operations. Its handleSerial and processCommands are those of    *)
(* sketches/common, line for line; its processCommand and parsers differ.  *)
(***************************************************************************)

\* The conversion of a long to uint8_t: the value modulo 256.
ToUint8(n) == n % 256

\* parseColorCommand(cmd, r, g, b). params.indexOf(',') is the first comma
\* at or after position 7 of cmd; String::toInt is atol on the substring, which
\* stops at the comma that ends it.
Boards_parseColorCommand(cmd) ==
    IF ~startsWith(cmd, STR_COLOR) THEN NoParse
    ELSE LET commaIndex1 == strchr(cmd, 7, ",")
             commaIndex2 == NextComma(cmd, commaIndex1)
             r == ToUint8(atol(cmd, 7))
             g == ToUint8(atol(cmd, commaIndex1 + 1))
             b == ToUint8(atol(cmd, commaIndex2 + 1))
         IN  IF commaIndex1 = 0 \/ commaIndex2 = 0 THEN NoParse
             ELSE IF r <= 255 /\ g <= 255 /\ b <= 255
                  THEN [NoParse EXCEPT !.ok = TRUE, !.r = r, !.g = g, !.b = b]
                  ELSE NoParse

\* parseBlink1Command(cmd, r, g, b, interval)
Boards_parseBlink1Command(cmd) ==
    IF ~startsWith(cmd, STR_BLINK1) THEN NoParse
    ELSE LET commaIndex1 == strchr(cmd, 8, ",")
             commaIndex2 == NextComma(cmd, commaIndex1)
             commaIndex3 == NextComma(cmd, commaIndex2)
             r == ToUint8(atol(cmd, 8))
             g == ToUint8(atol(cmd, commaIndex1 + 1))
             b == ToUint8(atol(cmd, commaIndex2 + 1))
             interval == atol(cmd, commaIndex3 + 1)
         IN  IF commaIndex1 = 0 \/ commaIndex2 = 0 \/ commaIndex3 = 0 THEN NoParse
             ELSE IF r <= 255 /\ g <= 255 /\ b <= 255 /\ interval > 0
                  THEN [NoParse EXCEPT !.ok = TRUE, !.r = r, !.g = g, !.b = b,
                                       !.interval = interval]
                  ELSE NoParse

\* parseBlink2Command: sscanf with six %hhu conversions and a %d. %hhu reads
\* an optionally signed decimal number and stores it converted to unsigned
\* char; t holds the numbers read, each within the range of long.
Boards_parseBlink2Command(cmd) ==
    IF ~startsWith(cmd, STR_BLINK2) THEN NoParse
    ELSE LET t == ScanInts(cmd, 8, 7)
         IN  IF Len(t) = 7 /\ t[7] > 0
             THEN [ok |-> TRUE, r |-> ToUint8(t[1]), g |-> ToUint8(t[2]),
                   b |-> ToUint8(t[3]), r2 |-> ToUint8(t[4]), g2 |-> ToUint8(t[5]),
                   b2 |-> ToUint8(t[6]), interval |-> t[7]]
             ELSE NoParse

\* parseRainbowCommand(cmd, interval)
Boards_parseRainbowCommand(cmd) ==
    IF ~startsWith(cmd, STR_RAINBOW) THEN NoParse
    ELSE LET t == ScanInts(cmd, 9, 1)
         IN  IF Len(t) = 1 /\ t[1] > 0
             THEN [NoParse EXCEPT !.ok = TRUE, !.interval = t[1]]
             ELSE NoParse

\* SerialCommandHandler::processCommand(cmd): the line it prints and the
\* LEDController calls it makes. The lines are, text for text, those that
\* ::processCommand of CommandProcessor.c builds from the same parse.
Boards_processCommand(cmd) ==
    IF cmd = STR_ON
    THEN [response |-> STR_ACCEPTED \o STR_ON, calls |-> <<Call("turnOn", NoParse)>>]
    ELSE IF cmd = STR_OFF
    THEN [response |-> STR_ACCEPTED \o STR_OFF, calls |-> <<Call("turnOff", NoParse)>>]
    ELSE IF startsWith(cmd, STR_COLOR)
    THEN [response |-> colorResponse(cmd, Boards_parseColorCommand(cmd)).response,
          calls |-> callIfParsed("setColor", Boards_parseColorCommand(cmd))]
    ELSE IF startsWith(cmd, STR_BLINK1)
    THEN [response |-> blink1Response(cmd, Boards_parseBlink1Command(cmd)).response,
          calls |-> callIfParsed("startBlink", Boards_parseBlink1Command(cmd))]
    ELSE IF startsWith(cmd, STR_BLINK2)
    THEN [response |-> blink2Response(cmd, Boards_parseBlink2Command(cmd)).response,
          calls |-> callIfParsed("startBlink2", Boards_parseBlink2Command(cmd))]
    ELSE IF startsWith(cmd, STR_RAINBOW)
    THEN [response |-> rainbowResponse(cmd, Boards_parseRainbowCommand(cmd)).response,
          calls |-> callIfParsed("startRainbow", Boards_parseRainbowCommand(cmd))]
    ELSE [response |-> STR_REJECT \o cmd \o STR_UNKNOWN_COMMAND, calls |-> <<>>]

(***************************************************************************)
(* UniversalMain.cpp                                                       *)
(***************************************************************************)

\* The loop with the command dispatched before the animation tick.
universalLoop_DispatchFirst == <<"handleSerial", "processCommands", "update">>

\* The calls of one universalLoop() iteration, in the order they are made.
universalLoop == <<"handleSerial", "update", "processCommands">>

StepAfter(p) ==
    LET i == CHOOSE k \in 1..Len(universalLoop) : universalLoop[k] = p
    IN  universalLoop[(i % Len(universalLoop)) + 1]

(***************************************************************************)
(* The host: lines written to the serial port                              *)
(***************************************************************************)

\* A field as the host writes it: its text and what the host means by it.
\* kind "int": the decimal rendering of val; kind "big": a decimal integer
\* above INT_MAX; kind "text": not a number (letters, nothing at all, or
\* digits followed by other characters).
IntTok(n) == [txt |-> IntToStr(n), kind |-> "int", val |-> n]

BigTok == [txt |-> <<"2", "1", "4", "7", "4", "8", "3", "6", "4", "8">>,
           kind |-> "big", val |-> 0]

\* val of a "text" field: the number its leading digits spell, 0 without any.
TextTok(t, lead) == [txt |-> t, kind |-> "text", val |-> lead]

Letters == TextTok(<<"a", "b", "c">>, 0)

Empty == TextTok(<<>>, 0)

DigitsThenText == TextTok(<<"1", "2", "x">>, 12)

\* Zero written with a minus sign.
MinusZero == [txt |-> <<"-", "0">>, kind |-> "minus zero", val |-> 0]

RECURSIVE Join(_)
Join(fields) ==
    IF fields = <<>> THEN <<>>
    ELSE IF Len(fields) = 1 THEN fields[1].txt
    ELSE fields[1].txt \o <<",">> \o Join(Tail(fields))

Line(word, fields) == [word |-> word, fields |-> fields]

\* The characters of a line: the command word, then the fields, each after a comma.
Render(in) ==
    in.word \o (IF in.fields = <<>> THEN <<>> ELSE <<",">> \o Join(in.fields))

W_COLOR == <<"C", "O", "L", "O", "R">>

W_BLINK1 == <<"B", "L", "I", "N", "K", "1">>

W_BLINK2 == <<"B", "L", "I", "N", "K", "2">>

W_RAINBOW == <<"R", "A", "I", "N", "B", "O", "W">>

W_FOO == <<"F", "O", "O">>

NoInput == Line(<<>>, <<>>)

\* Lines of the running system.
Overlong == Line([i \in 1..(MaxLineLength + 1) |-> "X"], <<>>)

SysInputs ==
    { Line(STR_ON, <<>>), Line(STR_OFF, <<>>), Line(W_FOO, <<>>), Overlong,
      Line(W_COLOR, <<IntTok(1), IntTok(2), IntTok(3)>>),
      Line(W_BLINK1, <<IntTok(255), IntTok(255), IntTok(255), IntTok(2)>>),
      Line(W_BLINK1, <<IntTok(255), IntTok(255), IntTok(255), IntTok(0)>>),
      Line(W_BLINK2, <<IntTok(255), IntTok(0), IntTok(0),
                       IntTok(0), IntTok(0), IntTok(255), IntTok(1)>>),
      Line(W_RAINBOW, <<IntTok(1)>>) }

\* Number of lines the host writes.
MaxSends == 2

\* Milliseconds the clock advances.
MaxElapsed == 2

\* The value millis() has when setup returns, just after reset.
ClockStarts == {U32(0, 0)}

\* What color1 and color2 may hold before any start* call wrote them.
Garbage == {Black, createColor(171, 205, 239)}

\* The LEDController createLEDController() returns, after initialize().
Boards ==
    {Digital_initialize(DigitalLEDController)}
      \cup {NeoPixel_initialize(NeoPixelLEDController(c, c)) : c \in Garbage}

(***************************************************************************)
(* The running system                                                      *)
(***************************************************************************)

\* No update() call was made yet in the iteration.
NoUpdate == [called |-> FALSE, advanced |-> FALSE, waited |-> U32(0, 0)]

Init ==
    /\ pc = universalLoop[1]
    /\ rx = <<>>
    /\ serialBuffer = <<>>
    /\ commandReady = FALSE
    /\ tx = <<>>
    /\ led \in Boards
    /\ now \in ClockStarts
    /\ ops = <<>>
    /\ input = NoInput
    /\ sends = 0
    /\ elapsed = 0
    /\ lastUpdate = NoUpdate
    /\ written = <<>>
    /\ advances = 0

\* The host writes one line and its terminator. The program looks at the
\* transport in handleSerial only, so the bytes arrive ahead of that call.
Send ==
    /\ pc = "handleSerial"
    /\ sends < MaxSends
    /\ \E in \in SysInputs :
         /\ rx' = rx \o Render(in) \o <<"\n">>
         /\ input' = in
    /\ sends' = sends + 1
    /\ UNCHANGED <<pc, serialBuffer, commandReady, tx, led, now, ops, elapsed,
                   lastUpdate, written, advances>>

\* One millisecond passes. The program reads the clock in update() and in the
\* start operations processCommands() calls, so time passes ahead of those.
Pass(limit) ==
    /\ pc \in {"update", "processCommands"}
    /\ elapsed < limit
    /\ now' = U32Add(now, 1)
    /\ elapsed' = elapsed + 1
    /\ UNCHANGED <<pc, rx, serialBuffer, commandReady, tx, led, ops, input, sends,
                   lastUpdate, written, advances>>

Tick == Pass(MaxElapsed)

\* handleSerial() discarding what the transport still holds when it returns.
HandleSerial_Flush ==
    /\ pc = "handleSerial"
    /\ LET h == handleSerial(rx, serialBuffer)
       IN  /\ rx' = <<>>
           /\ serialBuffer' = h.serialBuffer
           /\ commandReady' = (commandReady \/ h.commandReady)
           /\ tx' = tx \o h.out
    /\ pc' = StepAfter(pc)
    /\ lastUpdate' = NoUpdate
    /\ UNCHANGED <<led, now, ops, input, sends, elapsed, written, advances>>

\* commandHandler->handleSerial()
HandleSerial ==
    /\ pc = "handleSerial"
    /\ LET h == handleSerial(rx, serialBuffer)
       IN  /\ rx' = h.rx
           /\ serialBuffer' = h.serialBuffer
           /\ commandReady' = (commandReady \/ h.commandReady)
           /\ tx' = tx \o h.out
    /\ pc' = StepAfter(pc)
    /\ lastUpdate' = NoUpdate
    /\ UNCHANGED <<led, now, ops, input, sends, elapsed, written, advances>>

\* The loop leaving out the update() call of an iteration in which a complete
\* line waits to be handled.
Update_SkipWhenBusy ==
    /\ pc = "update"
    /\ IF commandReady
       THEN UNCHANGED <<led, lastUpdate, advances>>
       ELSE /\ led' = update(led, now)
            /\ lastUpdate' = [called |-> TRUE, advanced |-> update(led, now) # led,
                              waited |-> U32Sub(now, led.previousUpdateMillis)]
            /\ advances' = IF update(led, now) # led THEN advances + 1 ELSE advances
    /\ pc' = StepAfter(pc)
    /\ UNCHANGED <<rx, serialBuffer, commandReady, tx, now, ops, input, sends, elapsed,
                   written>>

\* ledController->update()
Update ==
    /\ pc = "update"
    /\ led' = update(led, now)
    /\ lastUpdate' = [called |-> TRUE, advanced |-> update(led, now) # led,
                      waited |-> U32Sub(now, led.previousUpdateMillis)]
    /\ advances' = IF update(led, now) # led THEN advances + 1 ELSE advances
    /\ pc' = StepAfter(pc)
    /\ UNCHANGED <<rx, serialBuffer, commandReady, tx, now, ops, input, sends, elapsed,
                   written>>

\* processCommands() leaving the handled line in the line buffer.
ProcessCommands_KeepBuffer ==
    /\ pc = "processCommands"
    /\ IF commandReady
       THEN LET response == processCommand(serialBuffer)
                calls == dispatch(serialBuffer, response)
            IN  /\ led' = invokeAll(led, calls, now)
                /\ ops' = calls
                /\ tx' = Append(tx, response.response)
                /\ serialBuffer' = serialBuffer
                /\ commandReady' = FALSE
                /\ advances' = IF calls = <<>> THEN advances ELSE 0
       ELSE UNCHANGED <<led, ops, tx, serialBuffer, commandReady, advances>>
    /\ pc' = StepAfter(pc)
    /\ UNCHANGED <<rx, now, input, sends, elapsed, lastUpdate, written>>

\* commandHandler->processCommands()
ProcessCommands ==
    /\ pc = "processCommands"
    /\ IF commandReady
       THEN LET response == processCommand(serialBuffer)
                calls == dispatch(serialBuffer, response)
            IN  /\ led' = invokeAll(led, calls, now)
                /\ ops' = calls
                /\ tx' = Append(tx, response.response)
                /\ serialBuffer' = <<>>
                /\ commandReady' = FALSE
                /\ advances' = IF calls = <<>> THEN advances ELSE 0
       ELSE UNCHANGED <<led, ops, tx, serialBuffer, commandReady, advances>>
    /\ pc' = StepAfter(pc)
    /\ UNCHANGED <<rx, now, input, sends, elapsed, lastUpdate, written>>

Next == Send \/ Tick \/ HandleSerial \/ Update \/ ProcessCommands

Spec == Init /\ [][Next]_vars

(***************************************************************************)
(* The parser on one line: the host writes a single line, the loop runs    *)
(***************************************************************************)

ChanToks ==
    {IntTok(0), IntTok(7), IntTok(255), IntTok(256), IntTok(-1), BigTok,
     Letters, Empty, DigitsThenText}

\* The fields of COLOR lines: those of ChanToks and a zero with a minus sign.
ColorToks == ChanToks \cup {MinusZero}

FewChanToks == {IntTok(0), IntTok(255), IntTok(256), IntTok(-1), Letters}

IvalToks ==
    {IntTok(1), IntTok(500), IntTok(INT_MAX), IntTok(0), IntTok(-100), BigTok,
     Letters, Empty, DigitsThenText}

\* The sequences of n fields drawn from toks.
Fields(n, toks) == [1..n -> toks]

ColorInputs ==
    {Line(W_COLOR, f) : f \in Fields(1, ColorToks) \cup Fields(2, ColorToks)
                              \cup Fields(3, ColorToks)
                              \cup Fields(4, {IntTok(0), IntTok(255), Letters})}

Blink1Inputs ==
    {Line(W_BLINK1, c \o <<i>>) : c \in Fields(3, FewChanToks), i \in IvalToks}
      \cup {Line(W_BLINK1, c) : c \in Fields(3, FewChanToks)}
      \cup {Line(W_BLINK1, <<IntTok(255), IntTok(255), IntTok(255), IntTok(500), x>>) :
              x \in ChanToks}

ValidBlink2 ==
    <<IntTok(255), IntTok(0), IntTok(0), IntTok(0), IntTok(0), IntTok(255), IntTok(300)>>

Blink2Inputs ==
    {Line(W_BLINK2, c \o <<i>>) : c \in Fields(6, {IntTok(0), IntTok(255)}),
                                  i \in IvalToks}
      \cup {Line(W_BLINK2, [ValidBlink2 EXCEPT ![k] = x]) : k \in 1..6, x \in ChanToks}
      \cup {Line(W_BLINK2, SubSeq(ValidBlink2, 1, k)) : k \in 1..6}
      \cup {Line(W_BLINK2, ValidBlink2 \o <<x>>) : x \in ChanToks}
      \cup {Line(W_BLINK2, [ValidBlink2 EXCEPT ![7] = i] \o <<x>>) :
              i \in IvalToks, x \in {IntTok(7), Letters}}

RainbowInputs ==
    {Line(W_RAINBOW, <<i>>) : i \in IvalToks}
      \cup {Line(W_RAINBOW, <<i, x>>) : i \in IvalToks, x \in ChanToks}

ParserInputs == ColorInputs \cup Blink1Inputs \cup Blink2Inputs \cup RainbowInputs

ParserInit ==
    /\ pc = universalLoop[1]
    /\ input \in ParserInputs
    /\ rx = Render(input) \o <<"\n">>
    /\ serialBuffer = <<>>
    /\ commandReady = FALSE
    /\ tx = <<>>
    /\ led \in Boards
    /\ now = U32(0, 0)
    /\ ops = <<>>
    /\ sends = 1
    /\ elapsed = 0
    /\ lastUpdate = NoUpdate
    /\ written = <<>>
    /\ advances = 0

ParserNext == HandleSerial \/ Update \/ ProcessCommands

ParserSpec == ParserInit /\ [][ParserNext]_vars

(***************************************************************************)
(* The line assembler on a byte stream: the host writes byte strings,      *)
(* whole lines and parts of lines, while the loop runs                     *)
(***************************************************************************)

LF == <<"\n">>

CRLF == <<"\r", "\n">>

\* COLOR,00...01,2,3: a valid line of n characters, n at least 11.
PaddedColor(n) ==
    STR_COLOR \o [i \in 1..(n - 10) |-> IF i = n - 10 THEN "1" ELSE "0"]
      \o <<",", "2", ",", "3">>

Sixty == PaddedColor(MaxLineLength)

FiftyNine == PaddedColor(MaxLineLength - 1)

\* MaxLineLength + 1 characters followed by the text of a valid command.
OverlongThenOn == Render(Overlong) \o STR_ON

\* Texts that resemble a command: ON and OFF with a field, lower case, and a
\* command word without a comma.
WordBodies ==
    { STR_ON \o <<",", "1">>, STR_OFF \o <<",", "0">>, <<"o", "n">>,
      <<"c", "o", "l", "o", "r", ",", "1", ",", "2", ",", "3">>, W_COLOR }

\* What the host writes in one go: a text ended by a line feed, a text ended
\* by a carriage return and a line feed, or the beginning of a line, whose
\* rest comes later.
Pieces ==
    {b \o LF : b \in {<<>>, STR_ON, W_FOO, Sixty, Render(Overlong), OverlongThenOn}
                       \cup WordBodies}
      \cup {b \o CRLF : b \in {<<>>, STR_ON, W_FOO, FiftyNine, Sixty}}
      \cup {STR_ON, Render(Overlong)}

\* The bytes of a sequence of byte strings, in order.
RECURSIVE Bytes(_)
Bytes(pieces) ==
    IF pieces = <<>> THEN <<>> ELSE Head(pieces) \o Bytes(Tail(pieces))

LineInit ==
    /\ pc = universalLoop[1]
    /\ rx = <<>>
    /\ serialBuffer = <<>>
    /\ commandReady = FALSE
    /\ tx = <<>>
    /\ led \in Boards
    /\ now = U32(0, 0)
    /\ ops = <<>>
    /\ input = NoInput
    /\ sends = 0
    /\ elapsed = 0
    /\ lastUpdate = NoUpdate
    /\ written = <<>>
    /\ advances = 0

\* The host writes a byte string; it reaches the transport ahead of a
\* handleSerial() call, the one place where the program looks at it.
Write ==
    /\ pc = "handleSerial"
    /\ sends < MaxSends
    /\ \E p \in Pieces :
         /\ rx' = rx \o p
         /\ written' = Append(written, p)
    /\ sends' = sends + 1
    /\ UNCHANGED <<pc, serialBuffer, commandReady, tx, led, now, ops, input, elapsed,
                   lastUpdate, advances>>

LineNext == Write \/ HandleSerial \/ Update \/ ProcessCommands

LineSpec == LineInit /\ [][LineNext]_vars

(***************************************************************************)
(* A blink over several intervals: the host writes one BLINK1 line, the    *)
(* loop runs and the clock advances                                        *)
(***************************************************************************)

\* Milliseconds the clock advances while the blink runs.
MaxBlinkElapsed == 6

BlinkInputs ==
    {Line(W_BLINK1, <<IntTok(c[1]), IntTok(c[2]), IntTok(c[3]), IntTok(n)>>) :
       c \in {<<255, 255, 255>>, <<0, 0, 255>>}, n \in {1, 2, 3}}

BlinkInit ==
    /\ pc = universalLoop[1]
    /\ input \in BlinkInputs
    /\ rx = Render(input) \o <<"\n">>
    /\ serialBuffer = <<>>
    /\ commandReady = FALSE
    /\ tx = <<>>
    /\ led \in Boards
    /\ now = U32(0, 0)
    /\ ops = <<>>
    /\ sends = 1
    /\ elapsed = 0
    /\ lastUpdate = NoUpdate
    /\ written = <<>>
    /\ advances = 0

LongTick == Pass(MaxBlinkElapsed)

BlinkNext == LongTick \/ HandleSerial \/ Update \/ ProcessCommands

BlinkSpec == BlinkInit /\ [][BlinkNext]_vars

(***************************************************************************)
(* OFF twice in a row: the host writes a command that lights or animates   *)
(* the LED, then OFF, then OFF again, and the loop runs                    *)
(***************************************************************************)

\* The lines of SysInputs that light the LED or start an animation.
EffectInputs ==
    { Line(STR_ON, <<>>),
      Line(W_COLOR, <<IntTok(1), IntTok(2), IntTok(3)>>),
      Line(W_BLINK1, <<IntTok(255), IntTok(255), IntTok(255), IntTok(2)>>),
      Line(W_BLINK2, <<IntTok(255), IntTok(0), IntTok(0),
                       IntTok(0), IntTok(0), IntTok(255), IntTok(1)>>),
      Line(W_RAINBOW, <<IntTok(1)>>) }

OffInit ==
    /\ pc = universalLoop[1]
    /\ input \in EffectInputs
    /\ rx = Render(input) \o LF \o STR_OFF \o LF \o STR_OFF \o LF
    /\ serialBuffer = <<>>
    /\ commandReady = FALSE
    /\ tx = <<>>
    /\ led \in Boards
    /\ now = U32(0, 0)
    /\ ops = <<>>
    /\ sends = 3
    /\ elapsed = 0
    /\ lastUpdate = NoUpdate
    /\ written = <<>>
    /\ advances = 0

OffNext == Tick \/ HandleSerial \/ Update \/ ProcessCommands

OffSpec == OffInit /\ [][OffNext]_vars

(***************************************************************************)
(* An animation under rejected and absent input: the host writes a line    *)
(* that starts an animation, then lines that are rejected or nothing at    *)
(* all, while the loop runs and the clock advances                         *)
(***************************************************************************)

\* The lines of SysInputs that start an animation.
AnimationInputs ==
    { Line(W_BLINK1, <<IntTok(255), IntTok(255), IntTok(255), IntTok(2)>>),
      Line(W_BLINK2, <<IntTok(255), IntTok(0), IntTok(0),
                       IntTok(0), IntTok(0), IntTok(255), IntTok(1)>>),
      Line(W_RAINBOW, <<IntTok(1)>>) }

\* The lines of SysInputs that are rejected.
RejectedInputs ==
    { Line(W_FOO, <<>>), Overlong,
      Line(W_BLINK1, <<IntTok(255), IntTok(255), IntTok(255), IntTok(0)>>) }

AnimationInit ==
    /\ pc = universalLoop[1]
    /\ input \in AnimationInputs
    /\ rx = Render(input) \o LF
    /\ serialBuffer = <<>>
    /\ commandReady = FALSE
    /\ tx = <<>>
    /\ led \in Boards
    /\ now = U32(0, 0)
    /\ ops = <<>>
    /\ sends = 1
    /\ elapsed = 0
    /\ lastUpdate = NoUpdate
    /\ written = <<>>
    /\ advances = 0

\* The host writes a line that will be rejected, MaxSends of them at most.
Disturb ==
    /\ pc = "handleSerial"
    /\ sends <= MaxSends
    /\ \E in \in RejectedInputs :
         /\ rx' = rx \o Render(in) \o LF
         /\ input' = in
    /\ sends' = sends + 1
    /\ UNCHANGED <<pc, serialBuffer, commandReady, tx, led, now, ops, elapsed,
                   lastUpdate, written, advances>>

AnimationNext == Disturb \/ Tick \/ HandleSerial \/ Update \/ ProcessCommands

AnimationSpec == AnimationInit /\ [][AnimationNext]_vars

\* The next call of universalLoop() is made: the step of handleSerial(),
\* update() or processCommands() that is due.
NextCall == pc' = StepAfter(pc)

\* loop() is called again and again, so the call that is due is always made
\* in the end; and the clock runs on (up to the bound MaxElapsed), whatever
\* the loop is doing.
FairAnimationSpec == AnimationSpec /\ WF_pc(NextCall) /\ SF_vars(Tick)

(***************************************************************************)
(* The String-based parsers on one line: the loop runs with the handler of *)
(* boards/common, and the host writes a single line                        *)
(***************************************************************************)

\* Channel fields: bytes, and integers outside 0..255.
WideChanToks == {IntTok(0), IntTok(255), IntTok(256), IntTok(300), IntTok(-1)}

BoardsInputs ==
    {Line(W_COLOR, f) : f \in Fields(3, WideChanToks)}
      \cup {Line(W_BLINK1, c \o <<i>>) : c \in Fields(3, {IntTok(255), IntTok(256), IntTok(-1)}),
                                        i \in {IntTok(500), IntTok(0)}}
      \cup {Line(W_BLINK2, [ValidBlink2 EXCEPT ![k] = x]) : k \in 1..6, x \in WideChanToks}
      \cup {Line(W_RAINBOW, <<i>>) : i \in {IntTok(50), IntTok(0)}}
      \cup {Line(STR_ON, <<>>), Line(STR_OFF, <<>>), Line(W_FOO, <<>>)}

BoardsInit ==
    /\ pc = universalLoop[1]
    /\ input \in BoardsInputs
    /\ rx = Render(input) \o LF
    /\ serialBuffer = <<>>
    /\ commandReady = FALSE
    /\ tx = <<>>
    /\ led \in Boards
    /\ now = U32(0, 0)
    /\ ops = <<>>
    /\ sends = 1
    /\ elapsed = 0
    /\ lastUpdate = NoUpdate
    /\ written = <<>>
    /\ advances = 0

\* commandHandler->processCommands() of the boards/common handler.
Boards_ProcessCommands ==
    /\ pc = "processCommands"
    /\ IF commandReady
       THEN LET done == Boards_processCommand(serialBuffer)
            IN  /\ led' = invokeAll(led, done.calls, now)
                /\ ops' = done.calls
                /\ tx' = Append(tx, done.response)
                /\ serialBuffer' = <<>>
                /\ commandReady' = FALSE
                /\ advances' = IF done.calls = <<>> THEN advances ELSE 0
       ELSE UNCHANGED <<led, ops, tx, serialBuffer, commandReady, advances>>
    /\ pc' = StepAfter(pc)
    /\ UNCHANGED <<rx, now, input, sends, elapsed, lastUpdate, written>>

BoardsNext == HandleSerial \/ Update \/ Boards_ProcessCommands

BoardsSpec == BoardsInit /\ [][BoardsNext]_vars

(***************************************************************************)
(* A rainbow once around the hue circle: the host writes RAINBOW,1 to a    *)
(* NeoPixel board, and the loop runs for more than 256 intervals           *)
(***************************************************************************)

\* Milliseconds the clock advances while the rainbow runs.
MaxHueElapsed == 260

RainbowInit ==
    /\ pc = universalLoop[1]
    /\ input = Line(W_RAINBOW, <<IntTok(1)>>)
    /\ rx = Render(input) \o LF
    /\ serialBuffer = <<>>
    /\ commandReady = FALSE
    /\ tx = <<>>
    /\ led \in {b \in Boards : b.kind = "RGB"}
    /\ now = U32(0, 0)
    /\ ops = <<>>
    /\ sends = 1
    /\ elapsed = 0
    /\ lastUpdate = NoUpdate
    /\ written = <<>>
    /\ advances = 0

\* One millisecond passes ahead of an update() call. An iteration of the loop
\* takes far less than a millisecond: the loop is at most one millisecond
\* behind the clock.
Beat ==
    /\ pc = "update"
    /\ elapsed < MaxHueElapsed
    /\ U32Sub(now, led.previousUpdateMillis).lo <= 1
    /\ now' = U32Add(now, 1)
    /\ elapsed' = elapsed + 1
    /\ UNCHANGED <<pc, rx, serialBuffer, commandReady, tx, led, ops, input, sends,
                   lastUpdate, written, advances>>

RainbowNext == Beat \/ HandleSerial \/ Update \/ ProcessCommands

RainbowSpec == RainbowInit /\ [][RainbowNext]_vars

(***************************************************************************)
(* A blink across the wrap of the clock: the board has been up for close   *)
(* to 2^32 ms when the host writes one BLINK1 line; elapsed counts the     *)
(* milliseconds from then on                                               *)
(***************************************************************************)

\* The value of millis() three milliseconds before it wraps to 0.
WrapStart == U32(HALF - 1, HALF - 3)

WrapInit ==
    /\ pc = universalLoop[1]
    /\ input \in BlinkInputs
    /\ rx = Render(input) \o LF
    /\ serialBuffer = <<>>
    /\ commandReady = FALSE
    /\ tx = <<>>
    /\ led \in Boards
    /\ now = WrapStart
    /\ ops = <<>>
    /\ sends = 1
    /\ elapsed = 0
    /\ lastUpdate = NoUpdate
    /\ written = <<>>
    /\ advances = 0

WrapNext == LongTick \/ HandleSerial \/ Update \/ ProcessCommands

WrapSpec == WrapInit /\ [][WrapNext]_vars

(***************************************************************************)
(* What the host means by a line, and what was answered                    *)
(***************************************************************************)

\* A field written as a decimal integer.
IsDecimal(t) == t.kind \in {"int", "big", "minus zero"}

\* A decimal integer field, not written with a minus sign, whose value is a byte.
IsByte(t) == t.kind = "int" /\ t.val \in 0..255

\* A decimal integer field whose value is above zero.
IsPositive(t) == t.kind = "big" \/ (t.kind = "int" /\ t.val > 0)

\* The line of ParserSpec has been answered.
Answered == Len(tx) > 0

TheLine == Render(input)

AcceptedEcho == STR_ACCEPTED \o TheLine

RejectedWith(reason) == STR_REJECT \o TheLine \o reason

NoCall == [op |-> "", r |-> 0, g |-> 0, b |-> 0,
           r2 |-> 0, g2 |-> 0, b2 |-> 0, interval |-> 0]

\* An integer field that is zero, below zero or written with a minus sign.
IsNonPositive(t) == (t.kind = "int" /\ t.val <= 0) \/ t.kind = "minus zero"

\* A field that does not begin with a number: letters, or nothing at all.
HasNoNumber(t) == t.kind = "text" /\ (t.txt = <<>> \/ ~isdigit(t.txt[1]))

\* A field that begins with a number above zero that a long can hold.
LeadingPositive(t) == t.kind \in {"int", "text"} /\ t.val > 0

\* The values of fields, each as printf writes it, with commas between.
RECURSIVE Rendered(_)
Rendered(fields) ==
    IF fields = <<>> THEN <<>>
    ELSE IF Len(fields) = 1 THEN IntToStr(fields[1].val)
    ELSE IntToStr(fields[1].val) \o <<",">> \o Rendered(Tail(fields))

(***************************************************************************)
(* C1                                                                      *)
(***************************************************************************)

RGBDispatch ==
    /\ led.kind = "RGB"
    /\ pc = "processCommands"
    /\ commandReady /\ ~commandReady'
    /\ ops' # <<>>

ControlOpEffect(l, m, c, t) ==
    CASE c.op \in {"turnOn", "turnOff", "setColor"} ->
           /\ ~m.animationEnabled /\ m.animationMode = "NONE"
           /\ m.shown = (IF c.op = "turnOn" THEN createColor(255, 255, 255)
                         ELSE IF c.op = "turnOff" THEN Black
                         ELSE createColor(c.r, c.g, c.b))
           /\ m.color1 = l.color1 /\ m.color2 = l.color2
           /\ m.blinkState = l.blinkState /\ m.rainbowHue = l.rainbowHue
           /\ m.currentInterval = l.currentInterval
           /\ m.previousUpdateMillis = l.previousUpdateMillis
      [] c.op = "startBlink" ->
           /\ m.animationEnabled /\ m.animationMode = "BLINK1"
           /\ ~m.blinkState /\ m.color1 = createColor(c.r, c.g, c.b)
           /\ m.currentInterval = c.interval /\ m.previousUpdateMillis = t
           /\ m.shown = Black
           /\ m.color2 = l.color2 /\ m.rainbowHue = l.rainbowHue
      [] c.op = "startBlink2" ->
           /\ m.animationEnabled /\ m.animationMode = "BLINK2"
           /\ ~m.blinkState /\ m.color1 = createColor(c.r, c.g, c.b)
           /\ m.color2 = createColor(c.r2, c.g2, c.b2)
           /\ m.currentInterval = c.interval /\ m.previousUpdateMillis = t
           /\ m.shown = createColor(c.r, c.g, c.b)
           /\ m.rainbowHue = l.rainbowHue
      [] c.op = "startRainbow" ->
           /\ m.animationEnabled /\ m.animationMode = "RAINBOW"
           /\ m.rainbowHue = 0
           /\ m.currentInterval = c.interval /\ m.previousUpdateMillis = t
           /\ m.blinkState = l.blinkState
           /\ m.color1 = l.color1 /\ m.color2 = l.color2
           /\ m.shown = l.shown

C3_RejectLeavesBackend ==
    [][(\E i \in (Len(tx) + 1)..Len(tx') : startsWith(tx'[i], STR_REJECT))
       => /\ led' = led
          /\ pc = "processCommands" => ops' = <<>>]_vars

\* A line was rejected while an animation was running.
C3_Witness ==
    /\ pc = universalLoop[1]
    /\ Len(tx) = 2
    /\ startsWith(tx[1], STR_ACCEPTED)
    /\ startsWith(tx[2], STR_REJECT)
    /\ ops = <<>>
    /\ ~commandReady
    /\ led.animationEnabled

\* State m is state l after exactly one phase advance.
OneAdvance(l, m) ==
    IF l.kind = "RGB" /\ l.animationMode = "RAINBOW"
    THEN /\ m.rainbowHue = (l.rainbowHue + 256) % 65536
         /\ m.blinkState = l.blinkState
         /\ m.shown = ColorHSV(l.rainbowHue)
    ELSE /\ m.blinkState = ~l.blinkState
         /\ l.kind = "RGB" => m.rainbowHue = l.rainbowHue

(***************************************************************************)
(* C4: an update() call either leaves the LEDController as it was or makes *)
(* one phase advance (one toggle of the phase flag, or one hue step) and   *)
(* sets the timestamp to the clock value, however many intervals have      *)
(* passed; a further call at the same clock value makes no advance.        *)
(***************************************************************************)
C4_AtMostOneAdvance ==
    [][(pc = "update" /\ pc' # pc)
       => \/ led' = led
          \/ /\ led.animationEnabled
             /\ OneAdvance(led, led')
             /\ led'.previousUpdateMillis = now
             /\ update(led', now) = led']_vars

\* An update() call made two intervals or more after the last phase change
\* has advanced the rainbow by one hue step.
C4_Witness ==
    /\ lastUpdate.advanced
    /\ lastUpdate.waited.hi = 0
    /\ lastUpdate.waited.lo >= 2 * led.currentInterval
    /\ led.kind = "RGB"
    /\ led.animationMode = "RAINBOW"
    /\ led.rainbowHue = 256

(***************************************************************************)
(* C5: a COLOR line of decimal integer fields is accepted exactly when it  *)
(* has three fields, each in 0..255; it is then echoed after ACCEPTED, and *)
(* setColor is called with those three values; otherwise (a value of 256   *)
(* or more, a negative value, a missing or an extra field) the answer is   *)
(* REJECT,<line>,invalid format and nothing is called.                     *)
(***************************************************************************)
C5_ColorAcceptedIffThreeBytes ==
    (/\ Answered
     /\ input.word = W_COLOR
     /\ \A i \in 1..Len(input.fields) : IsDecimal(input.fields[i]))
    => IF Len(input.fields) = 3 /\ \A i \in 1..3 : IsByte(input.fields[i])
       THEN /\ tx[1] = AcceptedEcho
            /\ ops = <<[NoCall EXCEPT !.op = "setColor",
                                      !.r = input.fields[1].val,
                                      !.g = input.fields[2].val,
                                      !.b = input.fields[3].val]>>
       ELSE /\ tx[1] = RejectedWith(STR_INVALID_FORMAT)
            /\ ops = <<>>

C5_Witness ==
    /\ Answered
    /\ input = Line(W_COLOR, <<IntTok(255), IntTok(0), IntTok(7)>>)
    /\ tx[1] = AcceptedEcho
    /\ Len(ops) = 1 /\ ops[1].op = "setColor" /\ ops[1].r = 255 /\ ops[1].b = 7

(***************************************************************************)
(* C6: every COLOR line in which some channel field is not a number        *)
(* (letters, an empty field, digits followed by other characters) is       *)
(* answered REJECT,<line>,invalid format, and setColor is not called.      *)
(***************************************************************************)
C6_NonNumericColorRejected ==
    (/\ Answered
     /\ input.word = W_COLOR
     /\ \E i \in 1..Len(input.fields) : input.fields[i].kind = "text")
    => /\ tx[1] = RejectedWith(STR_INVALID_FORMAT)
       /\ ops = <<>>

(***************************************************************************)
(* C7                                                                      *)
(***************************************************************************)

RainbowEcho(f) == STR_ACCEPTED \o W_RAINBOW \o STR_INTERVAL \o f.txt

\* C7 as stated: RAINBOW,n is answered ACCEPTED,RAINBOW,interval=n and
\* startRainbow(n) is called for every positive integer n; for n <= 0 or a
\* field without a number it is answered REJECT,<line>,invalid interval and
\* nothing is called.
C7_RainbowAcceptedForEveryPositive ==
    (Answered /\ input.word = W_RAINBOW /\ Len(input.fields) = 1)
    => /\ IsPositive(input.fields[1])
          => /\ tx[1] = RainbowEcho(input.fields[1])
             /\ Len(ops) = 1 /\ ops[1].op = "startRainbow"
             /\ IntToStr(ops[1].interval) = input.fields[1].txt
       /\ (IsNonPositive(input.fields[1]) \/ HasNoNumber(input.fields[1]))
          => /\ tx[1] = RejectedWith(STR_INVALID_INTERVAL)
             /\ ops = <<>>

\* C7, amended: RAINBOW,n is answered ACCEPTED,RAINBOW,interval=n and
\* startRainbow(n) is called for every integer n with 0 < n <= 2147483647;
\* for n <= 0 or a field that does not begin with a number it is answered
\* REJECT,<line>,invalid interval and nothing is called.
C7_RainbowAcceptedUpToLongMax ==
    (Answered /\ input.word = W_RAINBOW /\ Len(input.fields) = 1)
    => /\ (input.fields[1].kind = "int" /\ input.fields[1].val > 0)
          => /\ tx[1] = RainbowEcho(input.fields[1])
             /\ ops = <<[NoCall EXCEPT !.op = "startRainbow",
                                       !.interval = input.fields[1].val]>>
       /\ (IsNonPositive(input.fields[1]) \/ HasNoNumber(input.fields[1]))
          => /\ tx[1] = RejectedWith(STR_INVALID_INTERVAL)
             /\ ops = <<>>

C7_Witness ==
    /\ Answered
    /\ input = Line(W_RAINBOW, <<IntTok(INT_MAX)>>)
    /\ tx[1] = RainbowEcho(IntTok(INT_MAX))
    /\ Len(ops) = 1 /\ ops[1].op = "startRainbow" /\ ops[1].interval = INT_MAX

(***************************************************************************)
(* C8: a BLINK1 line is accepted exactly when it has four fields, each     *)
(* channel in 0..255 and an interval above zero, and is then answered      *)
(* ACCEPTED,BLINK1,r,g,b,interval=<n>; every other BLINK1 line (a zero,    *)
(* negative or non-numeric interval, a channel that is no byte, a wrong    *)
(* number of fields) is answered REJECT,<line>,invalid parameters and      *)
(* nothing is called.                                                      *)
(***************************************************************************)
C8_Blink1AcceptedIffValid ==
    (Answered /\ input.word = W_BLINK1)
    => IF /\ Len(input.fields) = 4
          /\ \A k \in 1..3 : IsByte(input.fields[k])
          /\ IsPositive(input.fields[4])
       THEN /\ tx[1] = STR_ACCEPTED \o STR_BLINK1 \o Join(SubSeq(input.fields, 1, 3))
                         \o STR_INTERVAL \o input.fields[4].txt
            /\ Len(ops) = 1 /\ ops[1].op = "startBlink"
       ELSE /\ tx[1] = RejectedWith(STR_INVALID_PARAMETERS)
            /\ ops = <<>>

(***************************************************************************)
(* C9                                                                      *)
(***************************************************************************)

Blink2Echo(f) ==
    STR_ACCEPTED \o STR_BLINK2 \o Rendered(SubSeq(f, 1, 6)) \o STR_INTERVAL \o f[7].txt

\* The six channels of a BLINK2 line and the interval n, as a startBlink2 call.
Blink2Call(f, n) ==
    [op |-> "startBlink2", r |-> f[1].val, g |-> f[2].val, b |-> f[3].val,
     r2 |-> f[4].val, g2 |-> f[5].val, b2 |-> f[6].val, interval |-> n]

\* A BLINK2 line of at most seven fields that the claim has rejected: a channel
\* that is an integer outside 0..255, an interval at or below zero, or fewer
\* than seven numbers.
Blink2Invalid(f) ==
    \/ Len(f) < 7
    \/ \E k \in 1..6 : k <= Len(f) /\ f[k].kind \in {"int", "big"} /\ ~IsByte(f[k])
    \/ \E k \in 1..6 : k <= Len(f) /\ f[k].kind = "text"
    \/ Len(f) = 7 /\ (IsNonPositive(f[7]) \/ HasNoNumber(f[7]))

\* C9 as stated: a BLINK2 line of six channels in 0..255 and an interval
\* above zero is accepted, startBlink2 is called with exactly those seven
\* values and the answer is ACCEPTED,BLINK2,r1,g1,b1,r2,g2,b2,interval=<n>;
\* with a channel outside 0..255, an interval <= 0 or fewer than seven
\* numbers the answer is REJECT,<line>,invalid parameters.
C9_Blink2ExactlyThoseValues ==
    (Answered /\ input.word = W_BLINK2 /\ Len(input.fields) <= 7)
    => /\ (/\ Len(input.fields) = 7
           /\ \A k \in 1..6 : IsByte(input.fields[k])
           /\ IsPositive(input.fields[7]))
          => /\ tx[1] = Blink2Echo(input.fields)
             /\ Len(ops) = 1
             /\ ops[1] = Blink2Call(input.fields, ops[1].interval)
             /\ IntToStr(ops[1].interval) = input.fields[7].txt
       /\ Blink2Invalid(input.fields)
          => /\ tx[1] = RejectedWith(STR_INVALID_PARAMETERS)
             /\ ops = <<>>

\* C9, amended: a BLINK2 line of six channels in 0..255 and an interval n
\* with 0 < n <= 2147483647 is accepted, startBlink2 is called with exactly
\* those seven values and the answer is
\* ACCEPTED,BLINK2,r1,g1,b1,r2,g2,b2,interval=n, rendered from the values;
\* with a channel outside 0..255, an interval <= 0 or fewer than seven
\* numbers the answer is REJECT,<line>,invalid parameters and nothing is
\* called.
C9_Blink2UpToLongMax ==
    (Answered /\ input.word = W_BLINK2 /\ Len(input.fields) <= 7)
    => /\ (/\ Len(input.fields) = 7
           /\ \A k \in 1..6 : IsByte(input.fields[k])
           /\ input.fields[7].kind = "int" /\ input.fields[7].val > 0)
          => /\ tx[1] = Blink2Echo(input.fields)
             /\ ops = <<Blink2Call(input.fields, input.fields[7].val)>>
       /\ Blink2Invalid(input.fields)
          => /\ tx[1] = RejectedWith(STR_INVALID_PARAMETERS)
             /\ ops = <<>>

C9_Witness ==
    /\ Answered
    /\ input = Line(W_BLINK2, ValidBlink2)
    /\ tx[1] = Blink2Echo(ValidBlink2)
    /\ ops = <<Blink2Call(ValidBlink2, 300)>>

(***************************************************************************)
(* C10: a COLOR line with a field after the third is rejected; a BLINK2    *)
(* line whose first seven fields are valid, and a RAINBOW line whose first *)
(* field is, are accepted also when more fields or other text follow, and  *)
(* the answer and the call made carry the values of the leading fields.    *)
(***************************************************************************)
C10_ArityPolicy ==
    Answered
    => /\ (input.word = W_COLOR /\ Len(input.fields) > 3)
          => /\ tx[1] = RejectedWith(STR_INVALID_FORMAT)
             /\ ops = <<>>
       /\ (/\ input.word = W_BLINK2
           /\ Len(input.fields) >= 7
           /\ \A k \in 1..6 : IsByte(input.fields[k])
           /\ LeadingPositive(input.fields[7])
           /\ (Len(input.fields) > 7 \/ input.fields[7].kind = "text"))
          => /\ tx[1] = STR_ACCEPTED \o STR_BLINK2 \o Rendered(SubSeq(input.fields, 1, 6))
                          \o STR_INTERVAL \o IntToStr(input.fields[7].val)
             /\ ops = <<Blink2Call(input.fields, input.fields[7].val)>>
       /\ (/\ input.word = W_RAINBOW
           /\ Len(input.fields) >= 1
           /\ LeadingPositive(input.fields[1])
           /\ (Len(input.fields) > 1 \/ input.fields[1].kind = "text"))
          => /\ tx[1] = STR_ACCEPTED \o W_RAINBOW \o STR_INTERVAL
                          \o IntToStr(input.fields[1].val)
             /\ ops = <<[NoCall EXCEPT !.op = "startRainbow",
                                       !.interval = input.fields[1].val]>>

C10_Witness ==
    /\ Answered
    /\ input = Line(W_BLINK2, ValidBlink2 \o <<Letters>>)
    /\ tx[1] = Blink2Echo(ValidBlink2)
    /\ ops = <<Blink2Call(ValidBlink2, 300)>>

(***************************************************************************)
(* C11: every non-empty line handed to the parser that is not exactly ON   *)
(* or OFF and does not begin with COLOR, BLINK1, BLINK2 or RAINBOW and a   *)
(* comma (ON or OFF with fields after it, lower case, a command word       *)
(* without a comma) is answered REJECT,<line>,unknown command, and no      *)
(* LEDController call is made for it.                                      *)
(***************************************************************************)
BeginsWith(l, p) == Len(l) >= Len(p) /\ SubSeq(l, 1, Len(p)) = p

IsCommandText(l) ==
    \/ l \in {<<"O", "N">>, <<"O", "F", "F">>}
    \/ \E w \in {W_COLOR, W_BLINK1, W_BLINK2, W_RAINBOW} : BeginsWith(l, w \o <<",">>)

C11_UnknownCommandRejected ==
    [][(/\ pc = "processCommands" /\ commandReady
        /\ serialBuffer # <<>> /\ ~IsCommandText(serialBuffer))
       => /\ tx' = Append(tx, STR_REJECT \o serialBuffer
                                \o <<",">> \o <<"u", "n", "k", "n", "o", "w", "n", " ",
                                                "c", "o", "m", "m", "a", "n", "d">>)
          /\ ops' = <<>>
          /\ led' = led]_vars

C11_Witness ==
    /\ written = <<STR_ON \o <<",", "1">> \o LF, W_COLOR \o LF>>
    /\ tx = << STR_REJECT \o STR_ON \o <<",", "1">> \o STR_UNKNOWN_COMMAND,
               STR_REJECT \o W_COLOR \o STR_UNKNOWN_COMMAND >>
    /\ ops = <<>>

\* The positions of the line feeds in b.
LineFeeds(b) == {i \in 1..Len(b) : b[i] = "\n"}

\* The length of the stretch that begins after position s of a string of n
\* bytes with line feeds at nl, and runs to the next line feed or to the end.
RunAfter(n, nl, s) ==
    (CHOOSE e \in (nl \cup {n + 1}) : e > s /\ \A j \in nl : j > s => e <= j) - s - 1

\* How many times a stretch without a line feed grows to 61 characters,
\* counting afresh after each time: the sum over the stretches that begin
\* after the positions of starts.
RECURSIVE Overruns(_, _, _)
Overruns(n, nl, starts) ==
    IF starts = {} THEN 0
    ELSE LET s == CHOOSE x \in starts : TRUE
         IN  (RunAfter(n, nl, s) \div 61) + Overruns(n, nl, starts \ {s})

\* The bytes a handleSerial() step takes from the transport.
Consumed == SubSeq(rx, 1, Len(rx) - Len(rx'))

\* The last n elements of b.
LastOf(b, n) == SubSeq(b, Len(b) - n + 1, Len(b))

\* The overflow reports and the line buffer a handleSerial() step must leave,
\* line being the line buffer followed by the bytes taken, less the line
\* feed that completed a line, and nl the positions of the line feeds in it.
OverflowEffect(line, nl) ==
    /\ Len(tx') = Len(tx) + Overruns(Len(line), nl, {0} \cup nl)
    /\ \A i \in (Len(tx) + 1)..Len(tx') :
         tx'[i] = <<"R", "E", "J", "E", "C", "T", ",", "B", "U", "F", "F", "E", "R", "_",
                    "O", "V", "E", "R", "F", "L", "O", "W", ",", "c", "o", "m", "m", "a",
                    "n", "d", " ", "t", "o", "o", " ", "l", "o", "n", "g">>
    /\ \A kept \in {LastOf(line, (Len(line) - (CHOOSE m \in nl \cup {0} : \A j \in nl : j <= m))
                                     % 61)} :
         serialBuffer' = IF commandReady' THEN trim(kept) ELSE kept

(***************************************************************************)
(* C12: each time the characters accumulated without a line feed number    *)
(* 61, handleSerial writes exactly REJECT,BUFFER_OVERFLOW,command too long *)
(* (it writes nothing else, and none of the accumulated text), drops what  *)
(* it accumulated and goes on reading, so that it ends only at a complete  *)
(* line or when the transport is empty; the line buffer then holds what    *)
(* came after the last drop, at most 60 characters.                        *)
(***************************************************************************)
C12_OverflowReportedAndDropped ==
    [][(pc = "handleSerial" /\ pc' # pc)
       => /\ rx = Consumed \o rx'
          /\ SubSeq(tx', 1, Len(tx)) = tx
          /\ rx' = <<>> \/ commandReady'
          /\ Len(serialBuffer') <= 60
          /\ \A all \in {serialBuffer \o Consumed} :
               \A line \in {IF commandReady' THEN SubSeq(all, 1, Len(all) - 1) ELSE all} :
                 \A nl \in {LineFeeds(line)} : OverflowEffect(line, nl)]_vars

C12_Witness ==
    /\ written = <<Render(Overlong), STR_ON \o LF>>
    /\ tx = <<sendRejected(STR_BUFFER_OVERFLOW, STR_COMMAND_TOO_LONG), STR_ACCEPTED \o STR_ON>>
    /\ serialBuffer = <<>>

\* Command lines of at most 60 characters.
QueuedTexts == {STR_ON, W_FOO, FiftyNine, Sixty} \cup WordBodies

\* p is one of them with its terminator, and no longer than the line buffer
\* allows with the carriage return counted.
IsQueuedLine(p) ==
    \E l \in QueuedTexts : p = l \o LF \/ (p = l \o CRLF /\ Len(l) < 60)

TextOf(p) == CHOOSE l \in QueuedTexts : p = l \o LF \/ p = l \o CRLF

\* The answer each of them is due.
AnswerTo(l) ==
    IF l = STR_ON THEN <<"A", "C", "C", "E", "P", "T", "E", "D", ",", "O", "N">>
    ELSE IF l \in {FiftyNine, Sixty} THEN STR_ACCEPTED \o l
    ELSE STR_REJECT \o l \o STR_UNKNOWN_COMMAND

\* The number of line feeds among the first n bytes of all.
FeedsIn(all, n) == Cardinality({i \in 1..n : all[i] = "\n"})

\* When all the host wrote are such lines, the lines whose terminator was
\* read have been answered, in the order written, but for the one that
\* waits in the line buffer.
AnsweredInOrder ==
    (\A i \in 1..Len(written) : IsQueuedLine(written[i]))
    => \A all \in {Bytes(written)} :
         \A done \in {FeedsIn(all, Len(all) - Len(rx)) - (IF commandReady THEN 1 ELSE 0)} :
           tx = [i \in 1..done |-> AnswerTo(TextOf(written[i]))]

\* A handleSerial() step stops at the first line feed met with characters in
\* the line buffer: line is the buffer followed by the bytes taken, less that
\* line feed, and nl the positions of the line feeds in it, each of which was
\* met with the line buffer empty.
StopsAtFirstLine(line, nl) ==
    /\ \A k \in nl :
         \E s \in {0} \cup nl :
           /\ s < k /\ \A j \in nl : ~(s < j /\ j < k)
           /\ (k - s - 1) % 61 = 0
    /\ commandReady'
       => (Len(line) - (CHOOSE m \in nl \cup {0} : \A j \in nl : j <= m)) % 61 # 0

(***************************************************************************)
(* C13: handleSerial reads up to and including the first line feed it      *)
(* meets with characters in the line buffer, and no further: what follows  *)
(* stays in the transport, untouched by update() and processCommands(),    *)
(* for a later iteration; otherwise it reads all there is. So each         *)
(* iteration answers at most one line and makes at most one LEDController  *)
(* call, and lines that queue up are answered in the order written, each   *)
(* once.                                                                   *)
(***************************************************************************)
C13_OneLinePerIteration ==
    /\ []AnsweredInOrder
    /\ [][/\ (pc = "handleSerial" /\ pc' # pc)
             => /\ rx = Consumed \o rx'
                /\ ~commandReady' => rx' = <<>>
                /\ \A all \in {serialBuffer \o Consumed} :
                     \A line \in {IF commandReady' THEN SubSeq(all, 1, Len(all) - 1) ELSE all} :
                       \A nl \in {LineFeeds(line)} :
                         /\ commandReady' => all[Len(all)] = "\n"
                         /\ StopsAtFirstLine(line, nl)
          /\ pc \in {"update", "processCommands"}
             => /\ rx' = rx
                /\ Len(tx') <= Len(tx) + 1
                /\ Len(ops') <= 1
                /\ (tx' # tx \/ led' # led)
                   => \/ (pc = "processCommands" /\ commandReady)
                      \/ (pc = "update" /\ tx' = tx)]_vars

C13_Witness ==
    /\ written = <<W_FOO \o LF, STR_ON \o LF>>
    /\ pc = "update"
    /\ commandReady /\ serialBuffer = W_FOO
    /\ rx = STR_ON \o LF
    /\ tx = <<>>

(***************************************************************************)
(* C14: a line feed that handleSerial reads while the line buffer is empty *)
(* is ignored. A call that reads nothing but such line feeds writes no     *)
(* line, raises no pending command and leaves the line buffer empty and    *)
(* the LEDController as it was; and a call that finds one ahead of other   *)
(* bytes does what it would have done with those bytes alone.              *)
(***************************************************************************)
C14_BlankLineIgnored ==
    [][(pc = "handleSerial" /\ pc' # pc /\ serialBuffer = <<>> /\ rx # <<>> /\ rx[1] = "\n")
       => /\ \A h \in {handleSerial(Tail(rx), <<>>)} :
               /\ tx' = tx \o h.out
               /\ serialBuffer' = h.serialBuffer
               /\ commandReady' = h.commandReady
               /\ rx' = h.rx
          /\ led' = led /\ ops' = ops
          /\ (\A i \in 1..Len(Consumed) : Consumed[i] = "\n")
             => /\ tx' = tx
                /\ serialBuffer' = <<>>
                /\ commandReady' = FALSE
                /\ rx' = <<>>]_vars

C14_Witness ==
    /\ written = <<LF, LF>>
    /\ pc = "handleSerial" /\ rx = <<>>
    /\ tx = <<>> /\ serialBuffer = <<>> /\ ~commandReady /\ ops = <<>>

\* What one iteration of the loop writes, and the LEDController calls it
\* makes, when it starts with the line buffer empty and bytes in the transport.
Outcome(bytes) ==
    LET h == handleSerial(bytes, <<>>)
        response == processCommand(h.serialBuffer)
    IN  IF h.commandReady
        THEN [tx |-> Append(h.out, response.response),
              ops |-> dispatch(h.serialBuffer, response)]
        ELSE [tx |-> h.out, ops |-> <<>>]

(***************************************************************************)
(* C15: for every command line L of at most 60 characters, once L followed *)
(* by a carriage return and a line feed has been read and handled, the     *)
(* lines written and the LEDController calls made are those that L         *)
(* followed by a line feed alone gives.                                    *)
(***************************************************************************)
C15_CrLfSameAsLf ==
    \A l \in {STR_ON, W_FOO, FiftyNine, Sixty} :
      (Len(l) <= 60 /\ written = <<l \o CRLF>> /\ pc = "handleSerial" /\ rx = <<>>)
      => \A o \in {Outcome(l \o LF)} : tx = o.tx /\ ops = o.ops

\* A call of op with colour c1 (and c2), each <<r, g, b>>, and interval i.
CallOf(op, c1, c2, i) ==
    [op |-> op, r |-> c1[1], g |-> c1[2], b |-> c1[3],
     r2 |-> c2[1], g2 |-> c2[2], b2 |-> c2[3], interval |-> i]

SomeColours == {<<0, 0, 0>>, <<1, 2, 3>>, <<255, 255, 255>>}

SomeIntervals == {1, 500}

\* The LEDController after turnOn(): lit, with no animation for update() to run.
SolidOn(l) ==
    /\ l.pin = "HIGH" /\ l.currentState = "HIGH"
    /\ ~l.animationEnabled
    /\ \A t \in {now, U32Add(now, 1), U32Add(now, 500)} : update(l, t) = l

(***************************************************************************)
(* C16: on the Digital backend, in whatever state a command finds it,      *)
(* setColor(r,g,b) leaves the controller as turnOn() does for every        *)
(* colour, black included; startBlink2(c1,c2,i) leaves it as               *)
(* startBlink(c1,i) does; startRainbow(i) leaves it as turnOn() does, lit  *)
(* and not animating; and when a COLOR, BLINK2 or RAINBOW line leads to    *)
(* one of these calls, the line is answered ACCEPTED and the controller is *)
(* left as by the call it degrades to.                                     *)
(***************************************************************************)
C16_DigitalDegrades ==
    [][(pc = "processCommands" /\ commandReady /\ ~commandReady' /\ led.kind = "Digital")
       => \A on \in {invoke(led, CallOf("turnOn", <<0, 0, 0>>, <<0, 0, 0>>, 0), now)} :
            /\ SolidOn(on)
            /\ \A c \in SomeColours :
                 invoke(led, CallOf("setColor", c, <<0, 0, 0>>, 0), now) = on
            /\ \A i \in SomeIntervals :
                 /\ invoke(led, CallOf("startRainbow", <<0, 0, 0>>, <<0, 0, 0>>, i), now) = on
                 /\ \A c1 \in SomeColours : \A c2 \in SomeColours :
                      invoke(led, CallOf("startBlink2", c1, c2, i), now)
                        = invoke(led, CallOf("startBlink", c1, <<0, 0, 0>>, i), now)
            /\ \A k \in 1..Len(ops') :
                 /\ ops'[k].op \in {"setColor", "startRainbow"}
                    => led' = on /\ BeginsWith(tx'[Len(tx')], STR_ACCEPTED)
                 /\ ops'[k].op = "startBlink2"
                    => /\ led' = invoke(led, [ops'[k] EXCEPT !.op = "startBlink"], now)
                       /\ led'.animationEnabled /\ led'.pin = "LOW"
                       /\ BeginsWith(tx'[Len(tx')], STR_ACCEPTED)
            /\ \A w \in {W_COLOR, W_BLINK2, W_RAINBOW} :
                 (BeginsWith(serialBuffer, w \o <<",">>)
                    /\ BeginsWith(tx'[Len(tx')], STR_ACCEPTED))
                 => Len(ops') = 1]_vars

C16_Witness ==
    /\ led.kind = "Digital"
    /\ Len(tx) = 2
    /\ BeginsWith(tx[1], STR_ACCEPTED \o STR_BLINK2)
    /\ BeginsWith(tx[2], STR_ACCEPTED \o W_RAINBOW)
    /\ Len(ops) = 1 /\ ops[1].op = "startRainbow"
    /\ led.pin = "HIGH" /\ ~led.animationEnabled /\ led.blinkState

\* The last line the host wrote has been read and handled, and nothing is
\* left of it in the transport or the line buffer.
LastLineHandled ==
    /\ sends > 0 /\ pc = "handleSerial"
    /\ rx = <<>> /\ serialBuffer = <<>> /\ ~commandReady

\* No animation is running: update() does nothing, now or later.
Idle(l) ==
    /\ ~l.animationEnabled
    /\ l.kind = "RGB" => l.animationMode = "NONE"
    /\ \A t \in {now, U32Add(now, 1), U32Add(now, 500)} : update(l, t) = l

(***************************************************************************)
(* C17: once the line ON has been handled, the last line written to the    *)
(* host is ACCEPTED,ON and the one call made for it is turnOn(); and after *)
(* turnOn(), whatever ran before it, no animation is running and the LED   *)
(* is lit (the pin HIGH on the Digital board, the pixel set to and showing *)
(* 255,255,255 on the NeoPixel board) until another command is handled.    *)
(***************************************************************************)
C17_OnLightsTheLED ==
    /\ (LastLineHandled /\ input = Line(<<"O", "N">>, <<>>))
       => /\ tx[Len(tx)] = <<"A", "C", "C", "E", "P", "T", "E", "D", ",", "O", "N">>
          /\ ops = <<[NoCall EXCEPT !.op = "turnOn"]>>
    /\ (ops # <<>> /\ ops[1].op = "turnOn")
       => /\ Idle(led)
          /\ led.kind = "Digital" => led.pin = "HIGH"
          /\ led.kind = "RGB"
             => /\ led.pixel = [src |-> "rgb", v |-> 255 * 65536 + 255 * 256 + 255]
                /\ led.shown = led.pixel

C17_Witness ==
    /\ LastLineHandled /\ input = Line(STR_ON, <<>>)
    /\ Len(tx) = 2 /\ BeginsWith(tx[1], STR_ACCEPTED \o STR_BLINK2)
    /\ led.kind = "RGB" /\ led.blinkState /\ led.color2 = createColor(0, 0, 255)
    /\ led.shown = createColor(255, 255, 255) /\ ~led.animationEnabled

\* The BLINK1 line has been accepted and startBlink called for it.
Blinking == ops # <<>> /\ ops[1].op = "startBlink"

\* The LED shows the colour of the BLINK1 line (the pin is HIGH on the
\* Digital board).
Lit(l) ==
    IF l.kind = "Digital" THEN l.pin = "HIGH"
    ELSE l.shown = [src |-> "rgb",
                    v |-> input.fields[1].val * 65536 + input.fields[2].val * 256
                            + input.fields[3].val]

\* The LED is off.
Dark(l) ==
    IF l.kind = "Digital" THEN l.pin = "LOW" ELSE l.shown = [src |-> "rgb", v |-> 0]

(***************************************************************************)
(* C18: the call made for an accepted BLINK1,r,g,b,n leaves the LED off,   *)
(* the phase flag false and the timestamp at the clock value. From then on *)
(* an update() call that finds less than n ms passed since the timestamp   *)
(* changes nothing, and one that finds n ms or more makes a phase advance: *)
(* it flips the phase flag and the LED (from off to the blink colour, from *)
(* the blink colour to off) and sets the timestamp to the clock value. So  *)
(* the LED is off until n ms after the command, and shows the blink colour *)
(* exactly when the number of phase advances made is odd.                  *)
(***************************************************************************)
C18_BlinkPhases ==
    /\ [](Blinking
          => /\ led.animationEnabled
             /\ Lit(led) <=> advances % 2 = 1
             /\ Dark(led) <=> advances % 2 = 0
             /\ led.blinkState <=> advances % 2 = 1)
    /\ [][/\ (pc = "processCommands" /\ commandReady /\ ~commandReady')
             => /\ tx' = <<STR_ACCEPTED \o STR_BLINK1
                             \o Join(SubSeq(input.fields, 1, 3)) \o STR_INTERVAL
                             \o input.fields[4].txt>>
                /\ Blinking' /\ advances' = 0
                /\ led'.previousUpdateMillis = now
          /\ (Blinking /\ pc = "update" /\ pc' # pc)
             => IF U32Sub(now, led.previousUpdateMillis).lo < input.fields[4].val
                THEN led' = led /\ advances' = advances
                ELSE /\ advances' = advances + 1
                     /\ led'.blinkState = ~led.blinkState
                     /\ Lit(led') <=> Dark(led)
                     /\ led'.previousUpdateMillis = now]_vars

C18_Witness ==
    /\ Blinking /\ input.fields[4].val = 2
    /\ advances = 3 /\ Lit(led) /\ led.kind = "RGB"
    /\ now = U32(0, 6)

(***************************************************************************)
(* C19: when OFF is written twice in a row after a command that lit or     *)
(* animated the LED, each OFF is answered ACCEPTED,OFF with turnOff()      *)
(* called for it; from the first OFF on no animation is running and the    *)
(* LED is off; and nothing about the LEDController, or what the LED shows, *)
(* changes after the first OFF: the second leaves all of it as it was.     *)
(***************************************************************************)
C19_OffTwice ==
    /\ [](Len(tx) >= 2
          => /\ tx[2] = <<"A", "C", "C", "E", "P", "T", "E", "D", ",", "O", "F", "F">>
             /\ tx[Len(tx)] = tx[2]
             /\ Len(tx) <= 3
             /\ ops = <<[NoCall EXCEPT !.op = "turnOff"]>>
             /\ Idle(led) /\ Dark(led))
    /\ [][Len(tx) >= 2 => led' = led]_vars

C19_Witness ==
    /\ Len(tx) = 3 /\ BeginsWith(tx[1], STR_ACCEPTED \o STR_BLINK2)
    /\ led.kind = "RGB" /\ led.blinkState /\ led.previousUpdateMillis = U32(0, 2)
    /\ Dark(led) /\ ~led.animationEnabled

\* The host has written the valid line l and its line feed last, right after
\* a line feed or as the first thing it wrote, and all of it has been read
\* and handled.
ServedAfterAnything(l) ==
    /\ written # <<>> /\ written[Len(written)] = l \o LF
    /\ Len(written) > 1
       => \A before \in {written[Len(written) - 1]} : before[Len(before)] = "\n"
    /\ pc = "handleSerial" /\ rx = <<>>

\* Such a line, ON or a COLOR line of 60 characters, has then been answered
\* ACCEPTED, its call has been made and the LED shows it.
ValidLineServed ==
    /\ ServedAfterAnything(<<"O", "N">>)
       => /\ tx[Len(tx)] = <<"A", "C", "C", "E", "P", "T", "E", "D", ",", "O", "N">>
          /\ ops = <<[NoCall EXCEPT !.op = "turnOn"]>>
          /\ led.kind = "RGB" => led.shown = createColor(255, 255, 255)
          /\ led.kind = "Digital" => led.pin = "HIGH"
    /\ ServedAfterAnything(Sixty)
       => /\ tx[Len(tx)] = STR_ACCEPTED \o Sixty
          /\ ops = <<[NoCall EXCEPT !.op = "setColor", !.r = 1, !.g = 2, !.b = 3]>>
          /\ led.kind = "RGB" => led.shown = createColor(1, 2, 3)
          /\ led.kind = "Digital" => led.pin = "HIGH"

(***************************************************************************)
(* C20: each line handed to the parser is answered by exactly one line,    *)
(* beginning ACCEPTED, or REJECT, and written in the loop iteration in     *)
(* which the line was completed; and whatever the host wrote before (valid *)
(* lines, unknown ones, overlong ones, blank ones, with either line        *)
(* ending), a valid line that begins right after a line feed is answered   *)
(* ACCEPTED, its LEDController call is made and the LED shows it.          *)
(***************************************************************************)
C20_OneAnswerAndNeverStuck ==
    /\ [](commandReady => pc \in {"update", "processCommands"})
    /\ []ValidLineServed
    /\ [][(pc = "processCommands" /\ pc' # pc)
          => IF commandReady
             THEN /\ Len(tx') = Len(tx) + 1 /\ SubSeq(tx', 1, Len(tx)) = tx
                  /\ \/ BeginsWith(tx'[Len(tx')], <<"A", "C", "C", "E", "P", "T", "E", "D", ",">>)
                     \/ BeginsWith(tx'[Len(tx')], <<"R", "E", "J", "E", "C", "T", ",">>)
                  /\ ~commandReady' /\ serialBuffer' = <<>>
             ELSE tx' = tx]_vars

C20_Witness ==
    /\ ServedAfterAnything(Sixty)
    /\ written[1] = OverlongThenOn \o LF
    /\ Len(tx) = 3 /\ tx[3] = STR_ACCEPTED \o Sixty
    /\ led.kind = "RGB" /\ led.shown = createColor(1, 2, 3)

\* The milliseconds the clock can still advance are enough for the interval
\* of the running animation to pass.
TimeLeftForAdvance ==
    U32Sub(now, led.previousUpdateMillis).lo + (MaxElapsed - elapsed) >= led.currentInterval

(***************************************************************************)
(* C21: every loop iteration calls update() exactly once, between          *)
(* handleSerial() and processCommands(), whether or not bytes arrived, a   *)
(* line completed or a command was rejected; a rejected line leaves the    *)
(* animation and its timestamp as they were. So while the loop keeps       *)
(* iterating and the clock keeps advancing, a running animation that no    *)
(* command replaces makes its next phase advance.                          *)
(***************************************************************************)
C21_UpdateEveryIteration ==
    /\ [](/\ pc = "update" => ~lastUpdate.called
          /\ pc = "processCommands" => lastUpdate.called)
    /\ [][/\ (pc = "handleSerial" /\ pc' # pc) => (pc' = "update" /\ led' = led)
          /\ (pc = "update" /\ pc' # pc)
             => /\ pc' = "processCommands" /\ lastUpdate'.called
                /\ led' = update(led, now)
          /\ (pc = "processCommands" /\ pc' # pc /\ ops' = <<>>) => led' = led]_vars
    /\ \A k \in 0..MaxElapsed :
         (led.animationEnabled /\ advances = k /\ TimeLeftForAdvance) ~> (advances > k)

\* The animation has advanced after two lines were rejected.
C21_Witness ==
    /\ led.animationEnabled /\ advances = 1
    /\ Len(tx) = 3 /\ BeginsWith(tx[2], STR_REJECT) /\ BeginsWith(tx[3], STR_REJECT)
    /\ lastUpdate.advanced

\* A channel field that is an integer outside 0..255.
OutOfByteRange(t) == t.kind = "int" /\ (t.val > 255 \/ t.val < 0)

(***************************************************************************)
(* C22: with the handler of boards/common, a COLOR, BLINK1 or BLINK2 line  *)
(* in which some channel is 256 or more, or negative, is not answered      *)
(* ACCEPTED and no LEDController call is made for it.                      *)
(***************************************************************************)
C22_WideChannelRejected ==
    (/\ Answered
     /\ input.word \in {W_COLOR, W_BLINK1, W_BLINK2}
     /\ \E k \in 1..Len(input.fields) :
          /\ k <= (IF input.word = W_BLINK2 THEN 6 ELSE 3)
          /\ OutOfByteRange(input.fields[k]))
    => /\ ~BeginsWith(tx[1], STR_ACCEPTED)
       /\ ops = <<>>

\* The BLINK2 line has been accepted and startBlink2 called for it on the
\* NeoPixel board; no LEDController call was made since.
Blinking2 ==
    /\ led.kind = "RGB"
    /\ ops # <<>> /\ ops[1].op = "startBlink2"
    /\ createColor(ops[1].r, ops[1].g, ops[1].b) # createColor(ops[1].r2, ops[1].g2, ops[1].b2)

(***************************************************************************)
(* C23: after startBlink2 with two different colours on the NeoPixel       *)
(* board, the LED shows the first colour until the first phase advance,    *)
(* the second colour after it, and so on in turn: the first colour after   *)
(* an even number of phase advances, the second after an odd number.       *)
(***************************************************************************)
C23_Blink2Alternates ==
    Blinking2
    => led.shown = IF advances % 2 = 0
                   THEN createColor(ops[1].r, ops[1].g, ops[1].b)
                   ELSE createColor(ops[1].r2, ops[1].g2, ops[1].b2)

(***************************************************************************)
(* C24: once a line of more than 60 characters and its line feed have been *)
(* read and handled, what was written is the one line                      *)
(* REJECT,BUFFER_OVERFLOW,command too long, and no LEDController call was  *)
(* made: what follows the 61st character, up to the line feed, is not      *)
(* taken for a command.                                                    *)
(***************************************************************************)
C24_OverlongTailDropped ==
    \A l \in {Render(Overlong), OverlongThenOn} :
      (written = <<l \o LF>> /\ pc = "handleSerial" /\ rx = <<>>)
      => /\ tx = <<sendRejected(STR_BUFFER_OVERFLOW, STR_COMMAND_TOO_LONG)>>
         /\ ops = <<>>

(***************************************************************************)
(* C25: whatever bytes the host writes (a line feed alone, a carriage      *)
(* return and a line feed, lines of any kind), the parser is never handed  *)
(* an empty command: the line REJECT,,unknown command is never written.    *)
(***************************************************************************)
C25_NoEmptyCommand ==
    /\ \A i \in 1..Len(tx) :
         tx[i] # <<"R", "E", "J", "E", "C", "T", ",", ",", "u", "n", "k", "n", "o", "w", "n",
                   " ", "c", "o", "m", "m", "a", "n", "d">>
    /\ commandReady => serialBuffer # <<>>

\* No animation runs on l: the enabled flag is false or, on the NeoPixel
\* board, the mode is NONE.
NotAnimating(l) == ~l.animationEnabled \/ (l.kind = "RGB" /\ l.animationMode = "NONE")

(***************************************************************************)
(* C26: an update() call made while no animation runs, or made less than   *)
(* the interval after the last phase change, returns with the whole        *)
(* LEDController as it was: mode, colours, phase flag, hue, interval and    *)
(* timestamp, and the pixel and what it shows, or the pin. This holds of    *)
(* the call at the present clock value and of a call at any clock value     *)
(* less than the interval past the timestamp.                               *)
(***************************************************************************)
C26_UpdateNoOp ==
    /\ (NotAnimating(led)
          \/ U32Less(U32Sub(now, led.previousUpdateMillis), ToUnsignedLong(led.currentInterval)))
       => update(led, now) = led
    /\ \A d \in 0..MaxElapsed :
         (NotAnimating(led) \/ d < led.currentInterval)
         => update(led, U32Add(led.previousUpdateMillis, d)) = led
    /\ (pc = "processCommands" /\ lastUpdate.called
          /\ U32Less(lastUpdate.waited, ToUnsignedLong(led.currentInterval)))
       => ~lastUpdate.advanced

\* update() was called 1 ms after a blink of interval 2 began, and did nothing.
C26_Witness ==
    /\ pc = "processCommands" /\ lastUpdate.called /\ ~lastUpdate.advanced
    /\ led.animationEnabled /\ led.currentInterval = 2
    /\ lastUpdate.waited = U32(0, 1)
    /\ led.previousUpdateMillis = U32(0, 1)

(***************************************************************************)
(* C27: a call that starts an animation (startBlink, startBlink2 and, on   *)
(* the NeoPixel board, startRainbow) sets the timestamp to the clock value *)
(* at the call; an update() call that makes a phase advance sets it to the *)
(* clock value of that call, however long ago the interval ran out. The    *)
(* timestamp of a running animation is thus the time of its start or of    *)
(* its last phase advance, and each phase advance comes at least one       *)
(* interval after it. (The clock starts at 0 here, so that the clock value *)
(* is the number of milliseconds passed.)                                  *)
(***************************************************************************)
C27_TimestampIsNow ==
    /\ [](/\ now = U32(0, elapsed)
          /\ led.animationEnabled
             => (led.previousUpdateMillis.hi = 0 /\ led.previousUpdateMillis.lo <= elapsed))
    /\ [][/\ (pc = "processCommands" /\ commandReady /\ ~commandReady'
              /\ ops' # <<>> /\ led'.animationEnabled)
             => led'.previousUpdateMillis = now
          /\ (pc = "update" /\ pc' # pc /\ led' # led)
             => /\ led'.previousUpdateMillis = now
                /\ elapsed - led.previousUpdateMillis.lo >= led.currentInterval
                /\ advances' = advances + 1]_vars

\* A phase advance made two intervals after the animation started has set
\* the timestamp to the clock value.
C27_Witness ==
    /\ lastUpdate.advanced /\ lastUpdate.waited = U32(0, 2)
    /\ led.animationEnabled /\ led.currentInterval = 1 /\ advances = 1
    /\ led.previousUpdateMillis = U32(0, 2) /\ now = U32(0, 2)

\* The RAINBOW line has been accepted and startRainbow called for it.
RainbowRunning == ops # <<>> /\ ops[1].op = "startRainbow"

(***************************************************************************)
(* C28: while a rainbow runs on the NeoPixel board, the hue accumulator is *)
(* 256 times the number of phase advances made since startRainbow, modulo  *)
(* 65536: it starts at 0, grows by 256 with each phase advance, is always  *)
(* a multiple of 256 from 0 to 65280, and is back at 0 after 256 phase     *)
(* advances and not before. Each phase advance shows the colour of the hue *)
(* the accumulator held before it.                                         *)
(***************************************************************************)
C28_HueSteps ==
    RainbowRunning
    => /\ led.animationMode = "RAINBOW"
       /\ led.rainbowHue = (256 * advances) % 65536
       /\ led.rainbowHue \in {256 * k : k \in 0..255}
       /\ (led.rainbowHue = 0) <=> (advances % 256 = 0)
       /\ advances > 0 => led.shown = ColorHSV((256 * (advances - 1)) % 65536)

\* The 256th phase advance has taken the hue from 65280 back to 0.
C28_Witness ==
    /\ RainbowRunning /\ advances = 256
    /\ led.rainbowHue = 0 /\ led.shown = ColorHSV(65280)
    /\ lastUpdate.advanced

(***************************************************************************)
(* C29: on the NeoPixel board, in every reachable state, the mode is one   *)
(* of NONE, BLINK1, BLINK2 and RAINBOW, and the enabled flag is true       *)
(* exactly when it is not NONE; and while the mode is NONE an update()     *)
(* call, whenever it is made, toggles no phase flag and writes no colour:  *)
(* it leaves the LEDController as it was.                                  *)
(***************************************************************************)
C29_EnabledIffMode ==
    led.kind = "RGB"
    => /\ led.animationMode \in {"NONE", "BLINK1", "BLINK2", "RAINBOW"}
       /\ led.animationEnabled <=> led.animationMode \in {"BLINK1", "BLINK2", "RAINBOW"}
       /\ ~led.animationEnabled <=> led.animationMode = "NONE"
       /\ led.animationMode = "NONE"
          => \A t \in {now, U32Add(now, 1), U32Add(now, 500),
                        U32Add(led.previousUpdateMillis, led.currentInterval % HALF)} :
               NeoPixel_update(led, t) = led

\* OFF has stopped a rainbow that had made one phase advance.
C29_Witness ==
    /\ led.kind = "RGB"
    /\ ops # <<>> /\ ops[1].op = "turnOff"
    /\ led.animationMode = "NONE" /\ ~led.animationEnabled
    /\ led.rainbowHue = 256 /\ led.currentInterval = 1

\* The number of milliseconds after which the clock, started at WrapStart,
\* showed the value t.
MillisecondOf(t) == CHOOSE k \in 0..(MaxBlinkElapsed + 1) : U32Add(WrapStart, k) = t

(***************************************************************************)
(* C30: with the clock wrapping to 0 while a blink runs, the difference    *)
(* update() computes, clock value minus timestamp modulo 2^32, is the      *)
(* number of milliseconds that truly passed since the last phase change    *)
(* (or the start), also when the timestamp was taken before the wrap and    *)
(* the clock value after it; so update() makes a phase advance exactly     *)
(* when the interval or more has truly passed: none early, none held back. *)
(***************************************************************************)
C30_WrapSafe ==
    /\ [](/\ now = U32Add(WrapStart, elapsed)
          /\ Blinking => \E k \in 0..elapsed : led.previousUpdateMillis = U32Add(WrapStart, k))
    /\ [][(Blinking /\ pc = "update" /\ pc' # pc)
          => \A passed \in {elapsed - MillisecondOf(led.previousUpdateMillis)} :
               /\ U32Sub(now, led.previousUpdateMillis) = U32(0, passed)
               /\ IF passed >= led.currentInterval
                  THEN /\ advances' = advances + 1
                       /\ led'.blinkState = ~led.blinkState
                       /\ led'.previousUpdateMillis = now
                  ELSE led' = led /\ advances' = advances]_vars

\* A blink of interval 3 that began 2 ms before the wrap has made its first
\* phase advance 1 ms after it.
C30_Witness ==
    /\ Blinking /\ led.currentInterval = 3 /\ advances = 1
    /\ lastUpdate.advanced /\ lastUpdate.waited = U32(0, 3)
    /\ now = U32(0, 1) /\ led.previousUpdateMillis = U32(0, 1) /\ elapsed = 4

(***************************************************************************)
(* The answer read back: the values a response shows, and the arguments    *)
(* of the call made for the same line                                      *)
(***************************************************************************)

\* A decimal numeral: digits and nothing else.
IsNumeral(t) == t # <<>> /\ \A i \in 1..Len(t) : isdigit(t[i])

RECURSIVE NumeralValue(_)
NumeralValue(t) ==
    IF t = <<>> THEN 0
    ELSE 10 * NumeralValue(SubSeq(t, 1, Len(t) - 1)) + DigitValue(t[Len(t)])

\* The text t shows the number n.
Shows(t, n) == IsNumeral(t) /\ NumeralValue(t) = n

\* The fields of a line of text, split at its commas.
RECURSIVE SplitAtCommas(_)
SplitAtCommas(s) ==
    IF strchr(s, 1, ",") = 0 THEN <<s>>
    ELSE <<SubSeq(s, 1, strchr(s, 1, ",") - 1)>>
         \o SplitAtCommas(SubSeq(s, strchr(s, 1, ",") + 1, Len(s)))

\* A field of a response without the label interval= in front of it.
WithoutLabel(t) ==
    IF BeginsWith(t, Tail(STR_INTERVAL))
    THEN SubSeq(t, Len(STR_INTERVAL), Len(t))
    ELSE t

\* The value fields of a response: what follows ACCEPTED and the command word.
ShownValues(response) ==
    [k \in 1..(Len(SplitAtCommas(response)) - 2) |->
        WithoutLabel(SplitAtCommas(response)[k + 2])]

\* The arguments of a LEDController call, in the order of its parameters.
ArgumentsOf(c) ==
    CASE c.op \in {"turnOn", "turnOff"} -> <<>>
      [] c.op = "setColor" -> <<c.r, c.g, c.b>>
      [] c.op = "startBlink" -> <<c.r, c.g, c.b, c.interval>>
      [] c.op = "startBlink2" -> <<c.r, c.g, c.b, c.r2, c.g2, c.b2, c.interval>>
      [] c.op = "startRainbow" -> <<c.interval>>

\* A response that begins with ACCEPTED was written exactly when one
\* LEDController call was made for the line.
OneCallIffAccepted == BeginsWith(tx[1], STR_ACCEPTED) <=> Len(ops) = 1

\* The call made for the line has the arguments the response shows.
CallAsShown ==
    Len(ops) = 1
    => /\ Len(ShownValues(tx[1])) = Len(ArgumentsOf(ops[1]))
       /\ \A k \in 1..Len(ArgumentsOf(ops[1])) :
            Shows(ShownValues(tx[1])[k], ArgumentsOf(ops[1])[k])

(***************************************************************************)
(* C31: the handler parses a line twice, once to build the response and    *)
(* once more to dispatch; a response that begins with ACCEPTED is written  *)
(* if and only if exactly one LEDController call is made for the line, and *)
(* the arguments of that call are the values the response shows.           *)
(***************************************************************************)
C31_AcceptedIffOneCallAsShown == Answered => (OneCallIffAccepted /\ CallAsShown)

====
